---- MODULE Spec2Model ----
(***************************************************************************)
(* Model of the igw industrial gateway: the data router (router/mapping.rs, *)
(* router/data_router.rs) and the virtual channel                          *)
(* (protocols/virtual_channel.rs).                                         *)
(*                                                                         *)
(* Representation.  An f64 is held as an integer number of tenths:         *)
(* 10.3 is 103.  Scale factors are held in tenths as well, so              *)
(* raw*scale + offset is (raw*scale) \div 10 + offset; the scales used     *)
(* (0.0, 1.0, 2.0) make the division exact.  An Option<T> is a sequence:   *)
(* None is <<>> and Some(x) is <<x>>.  A HashMap is a function over a      *)
(* finite key set into Options.                                            *)
(***************************************************************************)
EXTENDS Integers, Sequences, FiniteSets, TLC

VARIABLES
    table,              \* DataRouter.config.routing_table.mappings
    continue_on_error,  \* DataRouter.config.continue_on_error
    targets,            \* DataRouter.targets: channel id -> Option<writer>
    last_values,        \* RouterState.last_values: key -> Option<Value>
    last_forward,       \* RouterState.last_forward: key -> Option<Instant>
    task_handle,        \* DataRouter.task_handle is Some
    routing_tasks,      \* routing tasks spawned by start and not aborted
    now,                \* the monotonic clock, in milliseconds
    received,           \* MockWriter.received of each target channel
    trace,              \* the values the scenario driver has routed so far
    lastCall,           \* the last route_batch / process_batch call and its outcome
    vc,                 \* the VirtualChannel and its callers
    mb,                 \* the ModbusTcpClient
    gpio,               \* the GpioChannel
    j1939,              \* the J1939Client and its receive tasks
    probe               \* the argument and the result of the last pure-function call

vars == <<table, continue_on_error, targets, last_values, last_forward,
          task_handle, routing_tasks, now, received, trace, lastCall, vc, mb, gpio, j1939, probe>>

routerVars == <<table, continue_on_error, targets, last_values, last_forward,
                task_handle, routing_tasks, now, received, trace, lastCall>>

chanVars == <<mb, gpio, j1939, probe>>

(***************************************************************************)
(* Bounds of the model.                                                    *)
(***************************************************************************)
MaxBatch == 2       \* longest multi-point source batch
MaxCalls == 5       \* route_batch calls of the scenario driver
MaxTime == 4        \* the clock stops advancing here
MaxBuffer == 2      \* largest VirtualChannelConfig.buffer_size
MaxSubs == 1        \* receivers handed out by subscribe()
MaxWrites == 3      \* completed writes of the virtual channel
MaxCount == 2       \* largest read_count, write_count and error_count of a channel

MaxTasks == 1       \* most receive tasks of a J1939 client alive at a time

MaxErrors == 1      \* largest error_count of a J1939 client

MaxRoutingTasks == 2 \* most routing tasks of a router alive at a time

MaxEvaluators == 2  \* concurrent should_forward calls on one mapping

None == <<>>
Some(x) == <<x>>

(***************************************************************************)
(* core/data.rs: Value, DataPoint, DataBatch                               *)
(***************************************************************************)
VFloat(x) == [k |-> "Float", v |-> x]
VInteger(n) == [k |-> "Integer", v |-> n]
VBool(b) == [k |-> "Bool", v |-> IF b THEN 1 ELSE 0]
VString(n) == [k |-> "String", v |-> n]
VNull == [k |-> "Null", v |-> 0]

as_f64(val) ==
    CASE val.k = "Float" -> Some(val.v)
      [] val.k = "Integer" -> Some(val.v * 10)
      [] val.k = "Bool" -> Some(IF val.v = 1 THEN 10 ELSE 0)
      [] OTHER -> None

DataPointNew(id, data_type, value, ts) ==
    [id |-> id, data_type |-> data_type, value |-> value,
     quality |-> "Good", timestamp |-> ts]

telemetry(id, value, ts) == DataPointNew(id, "Telemetry", value, ts)
signal(id, b, ts) == DataPointNew(id, "Signal", VBool(b), ts)
control(id, b, ts) == DataPointNew(id, "Control", VBool(b), ts)
adjustment(id, value, ts) == DataPointNew(id, "Adjustment", value, ts)

DataBatchNew ==
    [telemetry |-> <<>>, signal |-> <<>>, control |-> <<>>, adjustment |-> <<>>]

BatchAdd(b, p) ==
    CASE p.data_type = "Telemetry" -> [b EXCEPT !.telemetry = Append(@, p)]
      [] p.data_type = "Signal" -> [b EXCEPT !.signal = Append(@, p)]
      [] p.data_type = "Control" -> [b EXCEPT !.control = Append(@, p)]
      [] OTHER -> [b EXCEPT !.adjustment = Append(@, p)]

BatchLen(b) == Len(b.telemetry) + Len(b.signal) + Len(b.control) + Len(b.adjustment)

BatchIter(b) == b.telemetry \o b.signal \o b.control \o b.adjustment

\* The variant that puts the other batch's points first.
BatchMergeFront(b, other) ==
    [telemetry |-> other.telemetry \o b.telemetry, signal |-> other.signal \o b.signal,
     control |-> other.control \o b.control, adjustment |-> other.adjustment \o b.adjustment]

BatchMerge(b, other) ==
    [telemetry |-> b.telemetry \o other.telemetry, signal |-> b.signal \o other.signal,
     control |-> b.control \o other.control, adjustment |-> b.adjustment \o other.adjustment]

RECURSIVE BatchOf(_)
BatchOf(pts) ==
    IF pts = <<>> THEN DataBatchNew
    ELSE BatchAdd(BatchOf(SubSeq(pts, 1, Len(pts) - 1)), pts[Len(pts)])

(***************************************************************************)
(* core/point.rs: TransformConfig                                          *)
(***************************************************************************)
TransformDefault == [scale |-> 0, offset |-> 0, reverse |-> FALSE]

linear(scale, offset) == [TransformDefault EXCEPT !.scale = scale, !.offset = offset]

apply(t, raw) == (raw * t.scale) \div 10 + t.offset

apply_bool(t, raw) == IF t.reverse THEN 1 - raw ELSE raw

(***************************************************************************)
(* router/mapping.rs: TriggerCondition, PointMapping, RoutingTable         *)
(***************************************************************************)
Trigger(type, min, max, ms, d) ==
    [type |-> type, min |-> min, max |-> max, min_interval_ms |-> ms, deadband |-> d]

Always == Trigger("Always", None, None, 0, 0)
OnChange == Trigger("OnChange", None, None, 0, 0)
Threshold(min, max) == Trigger("Threshold", min, max, 0, 0)
Interval(ms) == Trigger("Interval", None, None, ms, 0)
Deadband(d) == Trigger("Deadband", None, None, 0, d)

direct(sc, sp, tc, tp) ==
    [source_channel |-> sc, source_point |-> sp, target_channel |-> tc,
     target_point |-> Some(tp), transform |-> TransformDefault,
     enabled |-> TRUE, trigger |-> None]

same_id(sc, id, tc) ==
    [source_channel |-> sc, source_point |-> id, target_channel |-> tc,
     target_point |-> Some(id), transform |-> TransformDefault,
     enabled |-> TRUE, trigger |-> None]

with_transform(m, t) == [m EXCEPT !.transform = t]
with_trigger(m, trg) == [m EXCEPT !.trigger = Some(trg)]
with_enabled(m, e) == [m EXCEPT !.enabled = e]

effective_target_point(m) ==
    IF m.target_point # None THEN m.target_point[1] ELSE m.source_point

\* find_by_source without the enabled filter.
find_by_source_any(tbl, channel_id, point_id) ==
    SelectSeq([i \in 1..Len(tbl) |-> i],
              LAMBDA i : /\ tbl[i].source_channel = channel_id
                         /\ tbl[i].source_point = point_id)

\* Indices into tbl, in table order, of the mappings find_by_source returns.
find_by_source(tbl, channel_id, point_id) ==
    SelectSeq([i \in 1..Len(tbl) |-> i],
              LAMBDA i : /\ tbl[i].enabled
                         /\ tbl[i].source_channel = channel_id
                         /\ tbl[i].source_point = point_id)

enabled_mappings(tbl) ==
    SelectSeq([i \in 1..Len(tbl) |-> i], LAMBDA i : tbl[i].enabled)

(***************************************************************************)
(* router/data_router.rs: should_forward, one operator per match arm.      *)
(* Each arm takes the router state st = [last_values, last_forward] and    *)
(* returns [fwd, st]: the verdict and the state it leaves behind.          *)
(***************************************************************************)
Abs(x) == IF x < 0 THEN -x ELSE x

KeyOf(m) == <<m.source_channel, m.source_point>>

\* OnChange that never records the value it forwards.
OnChangeArmNoStore(m, p, st) ==
    [fwd |-> st.last_values[KeyOf(m)] # Some(p.value), st |-> st]

OnChangeArm(m, p, st) ==
    LET key == KeyOf(m)
        changed == st.last_values[key] # Some(p.value)
    IN  [fwd |-> changed,
         st |-> IF changed
                THEN [st EXCEPT !.last_values[key] = Some(p.value)]
                ELSE st]

\* Threshold with exclusive bounds.
ThresholdArmStrict(trg, p) ==
    LET f == as_f64(p.value)
    IN  IF f # None
        THEN /\ (trg.min = None) \/ (f[1] > trg.min[1])
             /\ (trg.max = None) \/ (f[1] < trg.max[1])
        ELSE TRUE

ThresholdArm(trg, p) ==
    LET f == as_f64(p.value)
    IN  IF f # None
        THEN LET above_min == (trg.min = None) \/ (f[1] >= trg.min[1])
                 below_max == (trg.max = None) \/ (f[1] <= trg.max[1])
             IN  above_min /\ below_max
        ELSE TRUE

\* Interval that restarts the waiting time at every point it sees.
IntervalArmRestamp(m, trg, st, t) ==
    LET key == KeyOf(m)
        last == st.last_forward[key]
    IN  [fwd |-> ~(last # None /\ t - last[1] < trg.min_interval_ms),
         st |-> [st EXCEPT !.last_forward[key] = Some(t)]]

IntervalArm(m, trg, st, t) ==
    LET key == KeyOf(m)
        last == st.last_forward[key]
    IN  IF last # None /\ t - last[1] < trg.min_interval_ms
        THEN [fwd |-> FALSE, st |-> st]
        ELSE [fwd |-> TRUE, st |-> [st EXCEPT !.last_forward[key] = Some(t)]]

\* Deadband that compares with the last value seen, forwarded or not.
DeadbandArmLastSeen(m, trg, p, st) ==
    LET key == KeyOf(m)
        f == as_f64(p.value)
        stored == st.last_values[key]
        last_value == IF stored # None THEN as_f64(stored[1]) ELSE None
    IN  IF f # None
        THEN [fwd |-> ~(last_value # None /\ Abs(f[1] - last_value[1]) < trg.deadband),
              st |-> [st EXCEPT !.last_values[key] = Some(p.value)]]
        ELSE [fwd |-> TRUE, st |-> st]

DeadbandArm(m, trg, p, st) ==
    LET key == KeyOf(m)
        f == as_f64(p.value)
        stored == st.last_values[key]
        last_value == IF stored # None THEN as_f64(stored[1]) ELSE None
    IN  IF f # None
        THEN IF last_value # None /\ Abs(f[1] - last_value[1]) < trg.deadband
             THEN [fwd |-> FALSE, st |-> st]
             ELSE [fwd |-> TRUE,
                   st |-> [st EXCEPT !.last_values[key] = Some(p.value)]]
        ELSE [fwd |-> TRUE, st |-> st]

TriggerOf(m) == IF m.trigger # None THEN m.trigger[1] ELSE Always

should_forward(m, p, st, t) ==
    LET trg == TriggerOf(m)
    IN  CASE trg.type = "Always" -> [fwd |-> TRUE, st |-> st]
          [] trg.type = "OnChange" -> OnChangeArm(m, p, st)
          [] trg.type = "Threshold" -> [fwd |-> ThresholdArm(trg, p), st |-> st]
          [] trg.type = "Interval" -> IntervalArm(m, trg, st, t)
          [] OTHER -> DeadbandArm(m, trg, p, st)

transform_point(p, m) ==
    LET new_value ==
            CASE p.value.k = "Float" -> VFloat(apply(m.transform, p.value.v))
              [] p.value.k = "Integer" -> VFloat(apply(m.transform, p.value.v * 10))
              [] p.value.k = "Bool" ->
                    [k |-> "Bool", v |-> apply_bool(m.transform, p.value.v)]
              [] OTHER -> p.value
    IN  [id |-> effective_target_point(m), data_type |-> p.data_type,
         value |-> new_value, quality |-> p.quality, timestamp |-> p.timestamp]

(***************************************************************************)
(* The inputs of the model.                                                *)
(***************************************************************************)
SourceChannels == {1, 2}
TargetChannels == {2, 3}
PointIds == {"t", "u"}
Keys == SourceChannels \X PointIds

NumericValues ==
    {VFloat(100), VFloat(105), VFloat(106), VInteger(10), VInteger(11)}
OtherValues == {VString(1), VNull}

\* Points as the constructors build them: telemetry(id, value), signal(id, bool).
\* Every table below reads point "t"; "u" is a point few mappings read.
Points ==
    {telemetry("t", VFloat(100), 0), telemetry("t", VInteger(10), 0),
     telemetry("t", VString(1), 0), signal("t", TRUE, 0),
     telemetry("u", VFloat(100), 0)}

\* The points the trigger conditions are exercised with.
TriggerPoints ==
    {telemetry("t", v, 0) : v \in NumericValues \cup OtherValues}
        \cup {signal("t", TRUE, 0), telemetry("u", VFloat(100), 0)}

\* The points that multi-point batches are built from.
PairPoints == {telemetry("t", VFloat(100), 0), telemetry("u", VFloat(100), 0)}
TriggerPairPoints == {telemetry("t", VFloat(100), 0), telemetry("t", VFloat(106), 0)}

SeqsOf(S, lo, hi) == UNION {[1..n -> S] : n \in lo..hi}

BatchesOver(S, P) ==
    {BatchOf(<<p>>) : p \in S} \cup {BatchOf(ps) : ps \in SeqsOf(P, 2, MaxBatch)}

Batches == BatchesOver(Points, PairPoints)
TriggerBatches == BatchesOver(TriggerPoints, TriggerPairPoints)

Perms(S) ==
    {f \in [1..Cardinality(S) -> S] : \A i, j \in DOMAIN f : f[i] = f[j] => i = j}

(***************************************************************************)
(* router/data_router.rs: the body shared by route_batch and process_batch *)
(***************************************************************************)
\* The (point index, mapping index) pairs in the order the nested loops of
\* route_batch visit them.
RECURSIVE RoutePairs(_, _, _, _)
RoutePairs(tbl, c, pts, i) ==
    IF i > Len(pts) THEN <<>>
    ELSE LET js == find_by_source(tbl, c, pts[i].id)
         IN  [n \in 1..Len(js) |-> <<i, js[n]>>] \o RoutePairs(tbl, c, pts, i + 1)

\* The pairs of a loop that reads the points as coming from channel 1.
RECURSIVE ProcessPairsOfChannel(_, _, _)
ProcessPairsOfChannel(tbl, pts, i) ==
    IF i > Len(pts) THEN <<>>
    ELSE LET js == find_by_source(tbl, 1, pts[i].id)
         IN  [n \in 1..Len(js) |-> <<i, js[n]>>] \o ProcessPairsOfChannel(tbl, pts, i + 1)

\* The same for process_batch, which matches on the point id alone.
RECURSIVE ProcessPairs(_, _, _)
ProcessPairs(tbl, pts, i) ==
    IF i > Len(pts) THEN <<>>
    ELSE LET js == SelectSeq(enabled_mappings(tbl),
                             LAMBDA j : tbl[j].source_point = pts[i].id)
         IN  [n \in 1..Len(js) |-> <<i, js[n]>>] \o ProcessPairs(tbl, pts, i + 1)

EmptyTargetBatches == [ch \in TargetChannels |-> DataBatchNew]

\* The loop body: should_forward, transform_point, target_batches.entry().add().
RECURSIVE Evaluate(_, _, _, _, _)
Evaluate(pairs, tbl, pts, t, acc) ==
    IF pairs = <<>> THEN acc
    ELSE LET p == pts[pairs[1][1]]
             m == tbl[pairs[1][2]]
             r == should_forward(m, p, acc.st, t)
             out == transform_point(p, m)
             e == [p |-> pairs[1][1], m |-> pairs[1][2], pass |-> r.fwd,
                   out |-> IF r.fwd THEN Some(out) ELSE None]
             tb == IF r.fwd
                   THEN [acc.target_batches EXCEPT
                            ![m.target_channel] = BatchAdd(@, out)]
                   ELSE acc.target_batches
         IN  Evaluate(Tail(pairs), tbl, pts, t,
                      [st |-> r.st, evals |-> Append(acc.evals, e),
                       target_batches |-> tb])

\* lastCall after an operation that routes nothing.
NoCall ==
    [op |-> "none", channel |-> 0, batch |-> <<>>, evals |-> <<>>,
     target_batches |-> EmptyTargetBatches, writes |-> <<>>, result |-> "Ok"]

Other(op) == [NoCall EXCEPT !.op = op]

WriterOk(kind) == kind # "failing"

\* The write loop over target_batches in the order the map yields them;
\* stop_on_err is the `?` of route_batch.
RECURSIVE WriteTargets(_, _, _, _)
WriteTargets(order, tb, tg, stop_on_err) ==
    IF order = <<>> THEN <<>>
    ELSE LET ch == order[1]
         IN  IF tg[ch] = None
             THEN WriteTargets(Tail(order), tb, tg, stop_on_err)
             ELSE LET ok == WriterOk(tg[ch][1])
                      w == [ch |-> ch, batch |-> tb[ch], ok |-> ok]
                  IN  IF ~ok /\ stop_on_err
                      THEN <<w>>
                      ELSE <<w>> \o WriteTargets(Tail(order), tb, tg, stop_on_err)

\* MockWriter::write_batch pushes the batch; the other writers keep nothing.
RECURSIVE Record(_, _, _)
Record(rcv, writes, tg) ==
    IF writes = <<>> THEN rcv
    ELSE LET w == writes[1]
             next == IF tg[w.ch] = Some("mock")
                     THEN [rcv EXCEPT ![w.ch] = Append(@, w.batch)]
                     ELSE rcv
         IN  Record(next, Tail(writes), tg)

RouterState == [last_values |-> last_values, last_forward |-> last_forward]

Run(op, c, batch, pairs, stop_on_err) ==
    LET pts == BatchIter(batch)
        r == Evaluate(pairs, table, pts, now,
                      [st |-> RouterState, evals |-> <<>>,
                       target_batches |-> EmptyTargetBatches])
        present == {ch \in TargetChannels : BatchLen(r.target_batches[ch]) > 0}
    IN  \E order \in Perms(present) :
           LET writes == WriteTargets(order, r.target_batches, targets, stop_on_err)
               failed == \E i \in DOMAIN writes : ~writes[i].ok
           IN  /\ last_values' = r.st.last_values
               /\ last_forward' = r.st.last_forward
               /\ received' = Record(received, writes, targets)
               /\ lastCall' = [op |-> op, channel |-> c, batch |-> pts,
                               evals |-> r.evals,
                               target_batches |-> r.target_batches,
                               writes |-> writes,
                               result |-> IF failed /\ stop_on_err THEN "Err" ELSE "Ok"]

RouteCall(c, batch) ==
    Run("route_batch", c, batch, RoutePairs(table, c, BatchIter(batch), 1), TRUE)

route_batch(c, batch) ==
    /\ RouteCall(c, batch)
    /\ UNCHANGED <<table, continue_on_error, targets, task_handle, routing_tasks, now, trace, vc, chanVars>>

\* A caller that routes one telemetry value of point "t" per route_batch call on
\* source channel 1, as the router's test does; the point's timestamp is the
\* position of the call.
route_value(v) ==
    /\ Len(trace) < MaxCalls
    /\ RouteCall(1, BatchOf(<<telemetry("t", VFloat(v), Len(trace) + 1)>>))
    /\ trace' = Append(trace, v)
    /\ UNCHANGED <<table, continue_on_error, targets, task_handle, routing_tasks, now, vc, chanVars>>

\* The monotonic clock advances by a millisecond.
Tick ==
    /\ now < MaxTime
    /\ now' = now + 1
    /\ lastCall' = Other("Tick")
    /\ UNCHANGED <<table, continue_on_error, targets, last_values, last_forward,
                   task_handle, routing_tasks, received, trace, vc, chanVars>>

\* One DataUpdate event taken by the routing loop.
process_batch(batch) ==
    /\ routing_tasks > 0
    /\ Run("process_batch", 0, batch, ProcessPairs(table, BatchIter(batch), 1), FALSE)
    /\ UNCHANGED <<table, continue_on_error, targets, task_handle, routing_tasks, now, trace, vc, chanVars>>

register_target(ch, kind) ==
    /\ targets' = [targets EXCEPT ![ch] = Some(kind)]
    /\ lastCall' = Other("register_target")
    /\ UNCHANGED <<table, continue_on_error, last_values, last_forward, task_handle, routing_tasks,
                   now, received, trace, vc, chanVars>>

unregister_target(ch) ==
    /\ targets' = [targets EXCEPT ![ch] = None]
    /\ lastCall' = Other("unregister_target")
    /\ UNCHANGED <<table, continue_on_error, last_values, last_forward, task_handle, routing_tasks,
                   now, received, trace, vc, chanVars>>

\* start spawns a routing task and stores its handle over the one it holds.
start ==
    /\ routing_tasks < MaxRoutingTasks
    /\ task_handle' = TRUE
    /\ routing_tasks' = routing_tasks + 1
    /\ lastCall' = Other("start")
    /\ UNCHANGED <<table, continue_on_error, targets, last_values, last_forward,
                   now, received, trace, vc, chanVars>>

\* stop takes the handle, if any, and aborts the task it names.
stop ==
    /\ task_handle' = FALSE
    /\ routing_tasks' = IF task_handle THEN routing_tasks - 1 ELSE routing_tasks
    /\ lastCall' = Other("stop")
    /\ UNCHANGED <<table, continue_on_error, targets, last_values, last_forward,
                   now, received, trace, vc, chanVars>>

(***************************************************************************)
(* Routing tables                                                          *)
(***************************************************************************)
Identity == linear(10, 0)

TDirect == <<direct(1, "t", 2, "out")>>

TFanout ==
    <<same_id(1, "t", 2),
      [with_transform(direct(1, "t", 3, "t"), linear(20, 10)) EXCEPT
          !.target_point = None]>>

TDisabled ==
    <<with_enabled(direct(1, "t", 2, "out"), FALSE),
      with_trigger(with_transform(same_id(1, "t", 3), Identity),
                   Threshold(Some(50), None)),
      with_transform(same_id(2, "u", 3), Identity)>>

TOnChange ==
    <<with_trigger(with_transform(same_id(1, "t", 2), Identity), OnChange)>>

TDeadband ==
    <<with_trigger(with_transform(same_id(1, "t", 2), Identity), Deadband(5))>>

TDeadbandDefault == <<with_trigger(same_id(1, "t", 2), Deadband(5))>>

TThreshold ==
    <<with_trigger(with_transform(same_id(1, "t", 2), Identity),
                   Threshold(Some(100), Some(106))),
      with_trigger(with_transform(same_id(1, "t", 3), Identity),
                   Threshold(None, Some(105)))>>

TThresholdMin ==
    <<with_trigger(with_transform(same_id(1, "t", 3), Identity),
                   Threshold(Some(105), None))>>

TInterval ==
    <<with_trigger(with_transform(same_id(1, "t", 2), Identity), Interval(2))>>

\* Two Interval mappings of one source key: they share its last-forward stamp.
TIntervalPair ==
    <<with_trigger(with_transform(same_id(1, "t", 2), Identity), Interval(2)),
      with_trigger(with_transform(same_id(1, "t", 3), Identity), Interval(0)),
      with_trigger(with_transform(same_id(2, "u", 3), Identity), Interval(3))>>

Tables == {TDirect, TFanout, TDisabled}

IntervalTables == {TInterval, TIntervalPair}

ScenarioTables == {TDeadband, TDeadbandDefault}

TriggerTables ==
    {TOnChange, TDeadband, TDeadbandDefault, TThreshold, TThresholdMin}

VcIdle == [pc |-> "unused"]

\* The channels a specification does not use.
NoChannels ==
    /\ mb = VcIdle
    /\ gpio = VcIdle
    /\ j1939 = VcIdle
    /\ probe = VcIdle

InitRouter(tbl, tg) ==
    /\ table = tbl
    /\ continue_on_error = TRUE
    /\ targets = tg
    /\ last_values = [key \in Keys |-> None]
    /\ last_forward = [key \in Keys |-> None]
    /\ task_handle = FALSE
    /\ routing_tasks = 0
    /\ now = 0
    /\ received = [ch \in TargetChannels |-> <<>>]
    /\ trace = <<>>
    /\ lastCall = NoCall

NoTargets == [ch \in TargetChannels |-> None]
SinkTargets == [ch \in TargetChannels |-> Some("sink")]

(***************************************************************************)
(* Spec: a router over the tables without trigger state, with writers      *)
(* coming and going.                                                       *)
(***************************************************************************)
Init ==
    /\ \E tbl \in Tables : InitRouter(tbl, NoTargets)
    /\ vc = VcIdle
    /\ NoChannels

Next ==
    \/ \E c \in SourceChannels, batch \in Batches : route_batch(c, batch)
    \/ \E batch \in Batches : process_batch(batch)
    \/ \E ch \in TargetChannels, kind \in {"sink", "failing"} : register_target(ch, kind)
    \/ \E ch \in TargetChannels : unregister_target(ch)
    \/ start
    \/ stop

Spec == Init /\ [][Next]_vars

(***************************************************************************)
(* SpecTrigger: a router whose two writers are registered, over the tables *)
(* with a trigger condition.                                               *)
(***************************************************************************)
InitTrigger ==
    /\ \E tbl \in TriggerTables : InitRouter(tbl, SinkTargets)
    /\ vc = VcIdle
    /\ NoChannels

NextTrigger ==
    \/ \E c \in SourceChannels, batch \in TriggerBatches : route_batch(c, batch)
    \/ \E batch \in TriggerBatches : process_batch(batch)
    \/ start
    \/ stop

SpecTrigger == InitTrigger /\ [][NextTrigger]_vars

(***************************************************************************)
(* SpecScenario: one Deadband{0.5} mapping src(1,"t") -> dst(2,"t"), a     *)
(* recording writer on channel 2, and a caller routing one value per call. *)
(***************************************************************************)
ScenarioValues == {100, 103, 106, 112}

MockTargets == [ch \in TargetChannels |-> IF ch = 2 THEN Some("mock") ELSE None]

InitScenario ==
    /\ \E tbl \in ScenarioTables : InitRouter(tbl, MockTargets)
    /\ vc = VcIdle
    /\ NoChannels

NextScenario == \E v \in ScenarioValues : route_value(v)

SpecScenario == InitScenario /\ [][NextScenario]_vars

(***************************************************************************)
(* SpecInterval: a router over the Interval tables, with the clock moving. *)
(***************************************************************************)
IntervalPoints == {telemetry("t", VFloat(100), 0), telemetry("u", VFloat(100), 0)}

IntervalBatches == BatchesOver(IntervalPoints, {telemetry("t", VFloat(100), 0)})

InitInterval ==
    /\ \E tbl \in IntervalTables : InitRouter(tbl, SinkTargets)
    /\ vc = VcIdle
    /\ NoChannels

NextInterval ==
    \/ \E c \in SourceChannels, batch \in IntervalBatches : route_batch(c, batch)
    \/ \E batch \in IntervalBatches : process_batch(batch)
    \/ start
    \/ stop
    \/ Tick

SpecInterval == InitInterval /\ [][NextInterval]_vars

(***************************************************************************)
(* SpecDelivery: a router over tables whose OnChange mappings share a      *)
(* source key or a point id, with writers coming and going.                *)
(***************************************************************************)
\* Two OnChange mappings of one source key, to two targets.
TOnChangePair ==
    <<with_trigger(with_transform(same_id(1, "t", 2), Identity), OnChange),
      with_trigger(with_transform(same_id(1, "t", 3), Identity), OnChange)>>

\* Point "t" of two source channels, and a mapping without a trigger.
TCross ==
    <<with_trigger(with_transform(same_id(1, "t", 2), Identity), OnChange),
      with_trigger(with_transform(same_id(2, "t", 3), Identity), OnChange),
      with_transform(same_id(2, "u", 3), Identity)>>

DeliveryTables == {TOnChangePair, TCross}

DeliveryBatches ==
    BatchesOver(TriggerPairPoints \cup {telemetry("u", VFloat(100), 0)}, TriggerPairPoints)

InitDelivery ==
    /\ \E tbl \in DeliveryTables : InitRouter(tbl, NoTargets)
    /\ vc = VcIdle
    /\ NoChannels

NextDelivery ==
    \/ \E c \in SourceChannels, batch \in DeliveryBatches : route_batch(c, batch)
    \/ \E batch \in DeliveryBatches : process_batch(batch)
    \/ \E ch \in TargetChannels, kind \in {"sink", "failing"} : register_target(ch, kind)
    \/ \E ch \in TargetChannels : unregister_target(ch)
    \/ start
    \/ stop

SpecDelivery == InitDelivery /\ [][NextDelivery]_vars

(***************************************************************************)
(* SpecLoop: the routing loop next to route_batch, over the same tables    *)
(* with both writers registered.                                           *)
(***************************************************************************)
InitLoop ==
    /\ \E tbl \in DeliveryTables : InitRouter(tbl, SinkTargets)
    /\ vc = VcIdle
    /\ NoChannels

NextLoop ==
    \/ \E c \in SourceChannels, batch \in DeliveryBatches : route_batch(c, batch)
    \/ \E batch \in DeliveryBatches : process_batch(batch)
    \/ start
    \/ stop

SpecLoop == InitLoop /\ [][NextLoop]_vars

(***************************************************************************)
(* SpecEvaluators: should_forward called concurrently for one OnChange     *)
(* mapping, by route_batch calls or the routing loop, one step per line    *)
(* of the OnChange arm.  The record probe holds the writer of the lock     *)
(* around RouterState (0 when free) and, for every call, its position,     *)
(* the value of its point and the verdict it computed.                     *)
(***************************************************************************)
EvaluatorValues == {VFloat(100), VFloat(106)}

Evaluators == 1..MaxEvaluators

EvaluatorKey == KeyOf(TOnChange[1])

InitEvaluators ==
    /\ InitRouter(TOnChange, SinkTargets)
    /\ vc = VcIdle /\ mb = VcIdle /\ gpio = VcIdle /\ j1939 = VcIdle
    /\ \E values \in [Evaluators -> EvaluatorValues] :
          probe = [pc |-> "evaluating", state_lock |-> 0,
                   calls |-> [e \in Evaluators |->
                                 [pc |-> "start", value |-> values[e],
                                  changed |-> FALSE]]]

EvaluatorStep(e, from) ==
    /\ probe.pc = "evaluating"
    /\ probe.calls[e].pc = from
    /\ UNCHANGED <<table, continue_on_error, targets, last_forward, task_handle,
                   routing_tasks, now, received, trace, lastCall, vc, mb, gpio, j1939>>

\* The lock admits a writer whatever it holds.
WriteLockFreeAlways(holder) == TRUE

\* state.write() is granted when no guard is held.
WriteLockFree(holder) == holder = 0

\* The call reaches state.write().await.
sf_call(e) ==
    /\ EvaluatorStep(e, "start")
    /\ probe' = [probe EXCEPT !.calls[e].pc = "waiting"]
    /\ UNCHANGED last_values

\* state.write().await returns the guard.
sf_write_lock(e) ==
    /\ EvaluatorStep(e, "waiting")
    /\ WriteLockFree(probe.state_lock)
    /\ probe' = [probe EXCEPT !.calls[e].pc = "locked", !.state_lock = e]
    /\ UNCHANGED last_values

\* let changed = state.last_values.get(&key) != Some(&point.value);
sf_check(e) ==
    /\ EvaluatorStep(e, "locked")
    /\ probe' = [probe EXCEPT
                    !.calls[e].pc = "checked",
                    !.calls[e].changed =
                        last_values[EvaluatorKey] # Some(probe.calls[e].value)]
    /\ UNCHANGED last_values

\* if changed { state.last_values.insert(key, point.value.clone()); }
sf_insert(e) ==
    /\ EvaluatorStep(e, "checked")
    /\ probe' = [probe EXCEPT !.calls[e].pc = "inserted"]
    /\ last_values' = IF probe.calls[e].changed
                      THEN [last_values EXCEPT ![EvaluatorKey] = Some(probe.calls[e].value)]
                      ELSE last_values

\* The arm returns changed and the guard is dropped.
sf_return(e) ==
    /\ EvaluatorStep(e, "inserted")
    /\ probe' = [probe EXCEPT
                    !.calls[e].pc = "done",
                    !.state_lock = IF @ = e THEN 0 ELSE @]
    /\ UNCHANGED last_values

NextEvaluators ==
    \E e \in Evaluators :
        \/ sf_call(e)
        \/ sf_write_lock(e)
        \/ sf_check(e)
        \/ sf_insert(e)
        \/ sf_return(e)

SpecEvaluators == InitEvaluators /\ [][NextEvaluators]_vars

(***************************************************************************)
(* protocols/virtual_channel.rs.  The record vc holds the channel:         *)
(*   buffer_size    VirtualChannelConfig.buffer_size                       *)
(*   event_queue    the events buffered between event_tx and _event_rx     *)
(*   diagnostics    VirtualDiagnostics                                     *)
(*   event_handler  event_handler is Some; handled counts its calls        *)
(*   subs           the receivers subscribe() has returned, each with the  *)
(*                  events in its channel, whether a sender of it is still *)
(*                  alive, and what its last recv() returned               *)
(*   pc, op, pending, result   the caller of write: where it is, through   *)
(*                  which method it came, its batch, what it was returned  *)
(*   produced       the batches written so far, in order                   *)
(*   last_read      what the last read() returned                          *)
(* The DataStore is outside the modelled files: its write_batch is taken   *)
(* to succeed or fail, whichever.                                          *)
(***************************************************************************)
VirtualChannelNew(buffer_size) ==
    [buffer_size |-> buffer_size, event_queue |-> <<>>,
     diagnostics |-> [write_count |-> 0, read_count |-> 0, points_stored |-> 0],
     event_handler |-> FALSE, handled |-> 0, subs |-> <<>>,
     pc |-> "idle", op |-> "none", pending |-> None, result |-> "none",
     last_read |-> "none", produced |-> <<>>]

\* write up to its first await on the event channel: the store write and its `?`.
WriteCall(op, batch) ==
    /\ vc.pc = "idle"
    /\ vc.diagnostics.write_count < MaxWrites
    /\ \E store_ok \in BOOLEAN :
          vc' = IF store_ok
                THEN [vc EXCEPT !.pc = "sending", !.op = op,
                                !.pending = Some(batch), !.result = "none"]
                ELSE [vc EXCEPT !.op = op, !.result = "Err"]
    /\ UNCHANGED <<routerVars, chanVars>>

write(batch) == WriteCall("write", batch)

write_point(point) == WriteCall("write_point", BatchAdd(DataBatchNew, point))

write_control(commands) ==
    WriteCall("write_control",
              BatchOf([i \in DOMAIN commands |->
                          control(commands[i].id, commands[i].value, 0)]))

write_adjustment(adjustments) ==
    WriteCall("write_adjustment",
              BatchOf([i \in DOMAIN adjustments |->
                          adjustment(adjustments[i].id, adjustments[i].value, 0)]))

\* event_tx.send(..).await completes when the channel has room for the event.
HasCapacity == Len(vc.event_queue) < vc.buffer_size

\* The rest of write, from the completion of the send to Ok(()).
write_send ==
    /\ vc.pc = "sending"
    /\ HasCapacity
    /\ LET batch == vc.pending[1]
       IN  vc' = [vc EXCEPT
                    !.event_queue = Append(@, batch),
                    !.diagnostics.write_count = @ + 1,
                    !.diagnostics.points_stored = @ + BatchLen(batch),
                    !.handled = IF vc.event_handler THEN @ + 1 ELSE @,
                    !.produced = Append(@, batch),
                    !.pc = "idle", !.pending = None, !.result = "Ok"]
    /\ UNCHANGED <<routerVars, chanVars>>

\* read takes the channel's points from the store, which succeeds or fails,
\* and counts the read; it takes &self and may run while a write waits.
vc_read ==
    /\ vc.pc \in {"idle", "sending"}
    /\ vc.diagnostics.read_count < MaxCount
    /\ \E store_ok \in BOOLEAN :
          vc' = IF store_ok
                THEN [vc EXCEPT !.diagnostics.read_count = @ + 1, !.last_read = "Ok"]
                ELSE [vc EXCEPT !.last_read = "Err"]
    /\ UNCHANGED <<routerVars, chanVars>>

\* subscribe makes a channel, drops its sender and returns its receiver.
subscribe ==
    /\ Len(vc.subs) < MaxSubs
    /\ vc' = [vc EXCEPT !.subs = Append(@, [since |-> Len(vc.produced),
                                            events |-> <<>>,
                                            sender_alive |-> FALSE,
                                            last_recv |-> "none"])]
    /\ UNCHANGED <<routerVars, chanVars>>

\* recv() on a receiver subscribe returned, when it does not wait: the next
\* event, or None once the channel is empty and has no sender.
recv(i) ==
    /\ i \in DOMAIN vc.subs
    /\ vc.subs[i].events # <<>> \/ ~vc.subs[i].sender_alive
    /\ vc' = IF vc.subs[i].events # <<>>
             THEN [vc EXCEPT !.subs[i].events = Tail(@),
                             !.subs[i].last_recv = "DataUpdate"]
             ELSE [vc EXCEPT !.subs[i].last_recv = "None"]
    /\ UNCHANGED <<routerVars, chanVars>>

set_event_handler ==
    /\ vc' = [vc EXCEPT !.event_handler = TRUE]
    /\ UNCHANGED <<routerVars, chanVars>>

\* connect and disconnect of the virtual channel do nothing and return Ok; both
\* take &mut self, so no write is under way.
VcConnect ==
    /\ vc.pc = "idle"
    /\ vc' = [vc EXCEPT !.op = "connect", !.result = "Ok"]
    /\ UNCHANGED <<routerVars, chanVars>>

VcDisconnect ==
    /\ vc.pc = "idle"
    /\ vc' = [vc EXCEPT !.op = "disconnect", !.result = "Ok"]
    /\ UNCHANGED <<routerVars, chanVars>>

\* A connection state that follows the connect and disconnect calls.
VcConnectionStateTracked ==
    IF vc.op = "disconnect" THEN "Disconnected" ELSE "Connected"

VcConnectionState == "Connected"

\* What diagnostics() returns.
VcDiagnostics ==
    [protocol |-> "Virtual", connection_state |-> "Connected",
     read_count |-> vc.diagnostics.read_count,
     write_count |-> vc.diagnostics.write_count,
     error_count |-> 0, points_stored |-> vc.diagnostics.points_stored]

(***************************************************************************)
(* SpecVC: one virtual channel, its writers and its subscribers.           *)
(***************************************************************************)
VcPoints == {telemetry("t", VFloat(100), 0), signal("t", TRUE, 0)}

VcBatches == {BatchOf(<<telemetry("t", VFloat(100), 0), telemetry("u", VFloat(100), 0)>>)}

VcControls == {<<[id |-> "t", value |-> TRUE]>>}

VcAdjustments == {<<[id |-> "t", value |-> VFloat(105)]>>}

InitVC ==
    /\ InitRouter(TDirect, NoTargets)
    /\ \E n \in 1..MaxBuffer : vc = VirtualChannelNew(n)
    /\ NoChannels

NextVC ==
    \/ \E batch \in VcBatches : write(batch)
    \/ \E point \in VcPoints : write_point(point)
    \/ \E commands \in VcControls : write_control(commands)
    \/ \E adjustments \in VcAdjustments : write_adjustment(adjustments)
    \/ write_send
    \/ subscribe
    \/ \E i \in 1..MaxSubs : recv(i)
    \/ set_event_handler
    \/ VcConnect
    \/ VcDisconnect

SpecVC == InitVC /\ [][NextVC]_vars

(***************************************************************************)
(* core/traits.rs: ConnectionState                                         *)
(***************************************************************************)
ConnectionStates ==
    {"Disconnected", "Connecting", "Connected", "Reconnecting", "Error"}

is_connected(state) == state = "Connected"

can_retry(state) == state \in {"Disconnected", "Error"}

\* ControlCommand::latching and ControlCommand::pulse.
latching(id, value) == [id |-> id, value |-> value, pulse_duration_ms |-> None]

pulse(id, value, duration_ms) ==
    [id |-> id, value |-> value, pulse_duration_ms |-> Some(duration_ms)]

\* The commands the channels are written with.
ControlCommands ==
    {<<latching("do", TRUE)>>,
     <<latching("don", TRUE)>>,
     <<latching("di", TRUE), latching("do", FALSE)>>,
     <<latching("xx", TRUE), latching("don", FALSE)>>,
     <<pulse("do", TRUE, 100)>>}

AdjustmentCommands == {<<[id |-> "ao", value |-> VFloat(105)]>>}

(***************************************************************************)
(* protocols/modbus/client.rs.  The record mb holds the client: state,     *)
(* is_connected, the diagnostics counters, where connect() is (pc), and    *)
(* the last call with what it returned; commands holds the commands of     *)
(* the last write_control.                                                 *)
(***************************************************************************)
ModbusNew ==
    [state |-> "Disconnected", is_connected |-> FALSE,
     read_count |-> 0, write_count |-> 0, error_count |-> 0,
     pc |-> "idle", op |-> "new", result |-> "Ok", commands |-> <<>>]

ModbusSetState(c, state) ==
    [c EXCEPT !.state = state, !.is_connected = is_connected(state)]

ModbusConnectionState ==
    IF mb.is_connected THEN "Connected" ELSE "Disconnected"

\* connect up to the await after set_state(Connecting).
modbus_connect ==
    /\ mb.pc = "idle"
    /\ mb' = [ModbusSetState(mb, "Connecting") EXCEPT
                 !.pc = "connecting", !.op = "connect", !.result = "none"]
    /\ UNCHANGED <<routerVars, vc, gpio, j1939, probe>>

\* The rest of connect: set_state(Connected), Ok.
modbus_connected ==
    /\ mb.pc = "connecting"
    /\ mb' = [ModbusSetState(mb, "Connected") EXCEPT !.pc = "idle", !.result = "Ok"]
    /\ UNCHANGED <<routerVars, vc, gpio, j1939, probe>>

\* disconnect that starts the diagnostics afresh.
modbus_disconnect_resetting ==
    /\ mb.pc = "idle"
    /\ mb' = [ModbusSetState(mb, "Disconnected") EXCEPT
                 !.op = "disconnect", !.result = "Ok",
                 !.read_count = 0, !.write_count = 0, !.error_count = 0]
    /\ UNCHANGED <<routerVars, vc, gpio, j1939, probe>>

modbus_disconnect ==
    /\ mb.pc = "idle"
    /\ mb' = [ModbusSetState(mb, "Disconnected") EXCEPT
                 !.op = "disconnect", !.result = "Ok"]
    /\ UNCHANGED <<routerVars, vc, gpio, j1939, probe>>

\* read that counts the call before it checks the connection.
modbus_read_counting ==
    /\ mb.pc = "idle"
    /\ mb.read_count < MaxCount
    /\ mb' = IF ~mb.is_connected
             THEN [mb EXCEPT !.op = "read", !.result = "NotConnected",
                             !.read_count = @ + 1]
             ELSE [mb EXCEPT !.op = "read", !.result = "Ok", !.read_count = @ + 1]
    /\ UNCHANGED <<routerVars, vc, gpio, j1939, probe>>

modbus_read ==
    /\ mb.pc = "idle"
    /\ mb.is_connected => mb.read_count < MaxCount
    /\ mb' = IF ~mb.is_connected
             THEN [mb EXCEPT !.op = "read", !.result = "NotConnected"]
             ELSE [mb EXCEPT !.op = "read", !.result = "Ok", !.read_count = @ + 1]
    /\ UNCHANGED <<routerVars, vc, gpio, j1939, probe>>

\* write_control and write_adjustment have the same body.
ModbusWrite(op, n, commands) ==
    /\ mb.pc = "idle"
    /\ mb.is_connected => mb.write_count + n <= MaxCount
    /\ mb' = IF ~mb.is_connected
             THEN [mb EXCEPT !.op = op, !.result = "NotConnected", !.commands = commands]
             ELSE [mb EXCEPT !.op = op, !.result = "Ok", !.write_count = @ + n,
                             !.commands = commands]
    /\ UNCHANGED <<routerVars, vc, gpio, j1939, probe>>

modbus_write_control(commands) == ModbusWrite("write_control", Len(commands), commands)

modbus_write_adjustment(adjustments) ==
    ModbusWrite("write_adjustment", Len(adjustments), <<>>)

modbus_start_polling ==
    /\ mb.pc = "idle"
    /\ mb' = [mb EXCEPT !.op = "start_polling",
                        !.result = IF ~mb.is_connected THEN "NotConnected" ELSE "Ok"]
    /\ UNCHANGED <<routerVars, vc, gpio, j1939, probe>>

(***************************************************************************)
(* protocols/gpio.rs.  The record gpio holds the channel: state, the       *)
(* diagnostics counters, output_states (point id -> Option<bool>),         *)
(* poll_task, and the last call with what it returned (result, the batch   *)
(* of a read, success_count and failures of a write).                      *)
(***************************************************************************)
digital_input(point_id) ==
    [point_id |-> point_id, direction |-> "Input", active_low |-> FALSE]

digital_output(point_id) ==
    [point_id |-> point_id, direction |-> "Output", active_low |-> FALSE]

with_active_low(pin, active_low) == [pin EXCEPT !.active_low = active_low]

\* GpioChannelConfig.pins of the modelled channel.
GpioPins ==
    <<digital_input("di"), digital_output("do"),
      with_active_low(digital_output("don"), TRUE)>>

GpioPointIds == {GpioPins[i].point_id : i \in DOMAIN GpioPins}

input_pins == SelectSeq(GpioPins, LAMBDA pin : pin.direction = "Input")

output_pins == SelectSeq(GpioPins, LAMBDA pin : pin.direction = "Output")

GpioNew ==
    [state |-> "Disconnected",
     read_count |-> 0, write_count |-> 0, error_count |-> 0,
     output_states |-> [id \in GpioPointIds |-> None],
     poll_task |-> "none",
     pc |-> "idle", op |-> "new", result |-> "Ok", batch |-> DataBatchNew,
     commands |-> <<>>, success_count |-> 0, failures |-> <<>>]

\* A call's record with the outcome of the call before it cleared.
GpioCall(c, op, result) ==
    [c EXCEPT !.op = op, !.result = result, !.batch = DataBatchNew,
              !.commands = <<>>, !.success_count = 0, !.failures = <<>>]

read_pin(pin) == signal(pin.point_id, IF pin.active_low THEN TRUE ELSE FALSE, 0)

Requested(request, pin) == request = None \/ pin.point_id \in request[1]

\* The batch read() builds: the requested input pins, then the requested output
\* pins that have a stored state.
RECURSIVE GpioReadBatch(_, _, _, _)
GpioReadBatch(pins, request, states, acc) ==
    IF pins = <<>> THEN acc
    ELSE LET pin == pins[1]
             next == IF ~Requested(request, pin) THEN acc
                     ELSE IF pin.direction = "Input" THEN BatchAdd(acc, read_pin(pin))
                     ELSE IF states[pin.point_id] # None
                          THEN BatchAdd(acc, control(pin.point_id,
                                                     states[pin.point_id][1] = 1, 0))
                          ELSE acc
         IN  GpioReadBatch(Tail(pins), request, states, next)

\* The output pin a command addresses: its index in GpioPins, or 0.
FindOutputPin(id) ==
    LET found == {i \in DOMAIN GpioPins :
                    GpioPins[i].point_id = id /\ GpioPins[i].direction = "Output"}
    IN  IF found = {} THEN 0 ELSE CHOOSE i \in found : \A j \in found : i <= j

\* write_pin stores the level of the pin: 1 or 0.
write_pin(states, pin, value) ==
    [states EXCEPT ![pin.point_id] =
        Some(IF (IF pin.active_low THEN ~value ELSE value) THEN 1 ELSE 0)]

\* The command loop that returns at the first command without an output pin.
RECURSIVE GpioWriteUntilFailure(_, _)
GpioWriteUntilFailure(commands, acc) ==
    IF commands = <<>> THEN acc
    ELSE LET cmd == commands[1]
             i == FindOutputPin(cmd.id)
         IN  IF i = 0 THEN [acc EXCEPT !.failures = Append(@, cmd.id)]
             ELSE GpioWriteUntilFailure(Tail(commands),
                     [acc EXCEPT !.output_states = write_pin(@, GpioPins[i], cmd.value),
                                 !.success_count = @ + 1])

\* The command loop of write_control.
RECURSIVE GpioWriteAll(_, _)
GpioWriteAll(commands, acc) ==
    IF commands = <<>> THEN acc
    ELSE LET cmd == commands[1]
             i == FindOutputPin(cmd.id)
             next == IF i # 0
                     THEN [acc EXCEPT
                             !.output_states = write_pin(@, GpioPins[i], cmd.value),
                             !.success_count = @ + 1]
                     ELSE [acc EXCEPT !.failures = Append(@, cmd.id)]
         IN  GpioWriteAll(Tail(commands), next)

gpio_connect ==
    /\ gpio.pc = "idle"
    /\ gpio' = [GpioCall(gpio, "connect", "Ok") EXCEPT !.state = "Connected"]
    /\ UNCHANGED <<routerVars, vc, mb, j1939, probe>>

gpio_disconnect ==
    /\ gpio.pc = "idle"
    /\ gpio' = [GpioCall(gpio, "disconnect", "Ok") EXCEPT
                   !.state = "Disconnected",
                   !.poll_task = "none"]
    /\ UNCHANGED <<routerVars, vc, mb, j1939, probe>>

\* read; the store's write_batch at its end succeeds or fails.
gpio_read(request) ==
    /\ gpio.pc = "idle"
    /\ is_connected(gpio.state) => gpio.read_count < MaxCount
    /\ \E store_ok \in BOOLEAN :
          gpio' = IF ~is_connected(gpio.state)
                  THEN GpioCall(gpio, "read", "NotConnected")
                  ELSE [GpioCall(gpio, "read", IF store_ok THEN "Ok" ELSE "Err") EXCEPT
                          !.read_count = @ + 1,
                          !.batch = IF store_ok
                                    THEN GpioReadBatch(input_pins \o output_pins, request,
                                                       gpio.output_states, DataBatchNew)
                                    ELSE DataBatchNew]
    /\ UNCHANGED <<routerVars, vc, mb, j1939, probe>>

gpio_write_control(commands) ==
    /\ gpio.pc = "idle"
    /\ is_connected(gpio.state) => gpio.write_count + Len(commands) <= MaxCount
    /\ gpio' = IF ~is_connected(gpio.state)
               THEN [GpioCall(gpio, "write_control", "NotConnected") EXCEPT
                       !.commands = commands]
               ELSE LET done == GpioWriteAll(commands, GpioCall(gpio, "write_control", "Ok"))
                    IN  [done EXCEPT !.write_count = @ + done.success_count,
                                     !.commands = commands]
    /\ UNCHANGED <<routerVars, vc, mb, j1939, probe>>

gpio_write_adjustment(adjustments) ==
    /\ gpio.pc = "idle"
    /\ gpio' = GpioCall(gpio, "write_adjustment", "Unsupported")
    /\ UNCHANGED <<routerVars, vc, mb, j1939, probe>>

\* start_polling spawns the polling task whatever the connection state.
gpio_start_polling ==
    /\ gpio.pc = "idle"
    /\ gpio' = [GpioCall(gpio, "start_polling", "Ok") EXCEPT !.poll_task = "running"]
    /\ UNCHANGED <<routerVars, vc, mb, j1939, probe>>

gpio_stop_polling ==
    /\ gpio.pc = "idle"
    /\ gpio' = [GpioCall(gpio, "stop_polling", "Ok") EXCEPT !.poll_task = "none"]
    /\ UNCHANGED <<routerVars, vc, mb, j1939, probe>>

\* One tick of the polling task: it ends when the channel is not connected, and
\* otherwise writes the input pins to the store.
gpio_poll_tick ==
    /\ gpio.pc = "idle"
    /\ gpio.poll_task = "running"
    /\ gpio' = IF ~is_connected(gpio.state)
               THEN [gpio EXCEPT !.poll_task = "finished"]
               ELSE gpio
    /\ UNCHANGED <<routerVars, vc, mb, j1939, probe>>

(***************************************************************************)
(* protocols/j1939/database.rs: the SPN table.  A scale is held as the     *)
(* fraction scale_num / scale_den; every offset of the table is a whole    *)
(* number.                                                                 *)
(***************************************************************************)
SpnDef(spn, pgn, start_byte, start_bit, bit_length, scale_num, scale_den, offset, data_type) ==
    [spn |-> spn, pgn |-> pgn, start_byte |-> start_byte, start_bit |-> start_bit,
     bit_length |-> bit_length, scale_num |-> scale_num, scale_den |-> scale_den,
     offset |-> offset, data_type |-> data_type]

SPN_DEFINITIONS ==
    <<SpnDef(899, 61444, 0, 0, 4, 1, 1, 0, "Uint8"),
      SpnDef(4154, 61444, 1, 0, 8, 1, 1, -125, "Uint8"),
      SpnDef(512, 61444, 1, 0, 8, 1, 1, -125, "Uint8"),
      SpnDef(513, 61444, 2, 0, 8, 1, 1, -125, "Uint8"),
      SpnDef(190, 61444, 3, 0, 16, 1, 8, 0, "Uint16"),
      SpnDef(1483, 61444, 5, 0, 8, 1, 1, 0, "Uint8"),
      SpnDef(1675, 61444, 6, 0, 4, 1, 1, 0, "Uint8"),
      SpnDef(2432, 61444, 7, 0, 8, 1, 1, -125, "Uint8"),
      SpnDef(558, 61443, 0, 0, 2, 1, 1, 0, "Uint8"),
      SpnDef(559, 61443, 0, 2, 2, 1, 1, 0, "Uint8"),
      SpnDef(1437, 61443, 0, 4, 2, 1, 1, 0, "Uint8"),
      SpnDef(2970, 61443, 0, 6, 2, 1, 1, 0, "Uint8"),
      SpnDef(91, 61443, 1, 0, 8, 2, 5, 0, "Uint8"),
      SpnDef(92, 61443, 2, 0, 8, 1, 1, 0, "Uint8"),
      SpnDef(974, 61443, 3, 0, 8, 2, 5, 0, "Uint8"),
      SpnDef(29, 61443, 4, 0, 8, 2, 5, 0, "Uint8"),
      SpnDef(2979, 61443, 5, 0, 8, 1, 1, 0, "Uint8"),
      SpnDef(5021, 61443, 6, 0, 2, 1, 1, 0, "Uint8"),
      SpnDef(514, 65247, 0, 0, 8, 1, 1, -125, "Uint8"),
      SpnDef(515, 65247, 1, 0, 16, 1, 8, 0, "Uint16"),
      SpnDef(519, 65247, 3, 0, 8, 1, 1, 0, "Uint8"),
      SpnDef(2978, 65247, 4, 0, 8, 1, 1, -125, "Uint8"),
      SpnDef(6595, 65247, 5, 0, 16, 1, 5, 0, "Uint16"),
      SpnDef(110, 65262, 0, 0, 8, 1, 1, -40, "Uint8"),
      SpnDef(174, 65262, 1, 0, 8, 1, 1, -40, "Uint8"),
      SpnDef(175, 65262, 2, 0, 16, 1, 32, -273, "Uint16"),
      SpnDef(176, 65262, 4, 0, 16, 1, 32, -273, "Uint16"),
      SpnDef(52, 65262, 6, 0, 8, 1, 1, -40, "Uint8"),
      SpnDef(1134, 65262, 7, 0, 8, 2, 5, 0, "Uint8"),
      SpnDef(94, 65263, 0, 0, 8, 4, 1, 0, "Uint8"),
      SpnDef(22, 65263, 1, 0, 8, 1, 20, 0, "Uint8"),
      SpnDef(98, 65263, 2, 0, 8, 2, 5, 0, "Uint8"),
      SpnDef(100, 65263, 3, 0, 8, 4, 1, 0, "Uint8"),
      SpnDef(101, 65263, 4, 0, 16, 1, 128, -250, "Uint16"),
      SpnDef(109, 65263, 6, 0, 8, 2, 1, 0, "Uint8"),
      SpnDef(111, 65263, 7, 0, 8, 2, 5, 0, "Uint8"),
      SpnDef(81, 65270, 0, 0, 8, 1, 2, 0, "Uint8"),
      SpnDef(102, 65270, 1, 0, 8, 2, 1, 0, "Uint8"),
      SpnDef(105, 65270, 2, 0, 8, 1, 1, -40, "Uint8"),
      SpnDef(106, 65270, 3, 0, 8, 2, 1, 0, "Uint8"),
      SpnDef(107, 65270, 4, 0, 8, 1, 20, 0, "Uint8"),
      SpnDef(173, 65270, 5, 0, 16, 1, 32, -273, "Uint16"),
      SpnDef(112, 65270, 7, 0, 8, 1, 2, 0, "Uint8"),
      SpnDef(114, 65271, 0, 0, 16, 1, 1, -125, "Int16"),
      SpnDef(115, 65271, 2, 0, 16, 1, 1, 0, "Uint16"),
      SpnDef(168, 65271, 4, 0, 16, 1, 20, 0, "Uint16"),
      SpnDef(158, 65271, 6, 0, 16, 1, 20, 0, "Uint16"),
      SpnDef(108, 65269, 0, 0, 8, 1, 2, 0, "Uint8"),
      SpnDef(170, 65269, 1, 0, 16, 1, 32, -273, "Uint16"),
      SpnDef(171, 65269, 3, 0, 16, 1, 32, -273, "Uint16"),
      SpnDef(172, 65269, 5, 0, 8, 1, 1, -40, "Uint8"),
      SpnDef(79, 65269, 6, 0, 16, 1, 32, -273, "Uint16"),
      SpnDef(183, 65266, 0, 0, 16, 1, 20, 0, "Uint16"),
      SpnDef(184, 65266, 2, 0, 16, 1, 512, 0, "Uint16"),
      SpnDef(185, 65266, 4, 0, 16, 1, 512, 0, "Uint16"),
      SpnDef(51, 65266, 6, 0, 8, 2, 5, 0, "Uint8"),
      SpnDef(247, 65253, 0, 0, 32, 1, 20, 0, "Uint32"),
      SpnDef(249, 65253, 4, 0, 32, 1000, 1, 0, "Uint32"),
      SpnDef(1081, 65252, 0, 0, 2, 1, 1, 0, "Uint8"),
      SpnDef(2432, 65252, 0, 2, 2, 1, 1, 0, "Uint8"),
      SpnDef(3384, 65252, 0, 4, 2, 1, 1, 0, "Uint8"),
      SpnDef(3385, 65252, 0, 6, 2, 1, 1, 0, "Uint8"),
      SpnDef(182, 65257, 0, 0, 32, 1, 2, 0, "Uint32"),
      SpnDef(250, 65257, 4, 0, 32, 1, 2, 0, "Uint32"),
      SpnDef(246, 65217, 0, 0, 32, 1, 20, 0, "Uint32"),
      SpnDef(248, 65217, 4, 0, 32, 1, 20, 0, "Uint32"),
      SpnDef(898, 64966, 0, 0, 2, 1, 1, 0, "Uint8"),
      SpnDef(897, 64966, 0, 2, 2, 1, 1, 0, "Uint8"),
      SpnDef(518, 64966, 1, 0, 16, 1, 8, 0, "Uint16"),
      SpnDef(3349, 64966, 4, 0, 3, 1, 1, 0, "Uint8"),
      SpnDef(3563, 65243, 0, 0, 8, 2, 1, 0, "Uint8"),
      SpnDef(3564, 65243, 1, 0, 8, 1, 2, 0, "Uint8"),
      SpnDef(5578, 65243, 2, 0, 16, 1, 128, 0, "Uint16"),
      SpnDef(441, 65188, 0, 0, 16, 1, 32, -273, "Uint16"),
      SpnDef(442, 65188, 2, 0, 16, 1, 32, -273, "Uint16"),
      SpnDef(1638, 65189, 0, 0, 16, 1, 32, -273, "Uint16"),
      SpnDef(1639, 65189, 2, 0, 16, 1, 32, -273, "Uint16"),
      SpnDef(3237, 65189, 4, 0, 16, 1, 32, -273, "Uint16"),
      SpnDef(244, 65248, 0, 0, 32, 1, 8, 0, "Uint32"),
      SpnDef(245, 65248, 4, 0, 32, 1, 8, 0, "Uint32"),
      SpnDef(69, 65265, 0, 0, 2, 1, 1, 0, "Uint8"),
      SpnDef(70, 65265, 0, 2, 2, 1, 1, 0, "Uint8"),
      SpnDef(84, 65265, 1, 0, 16, 1, 256, 0, "Uint16"),
      SpnDef(595, 65265, 3, 0, 2, 1, 1, 0, "Uint8"),
      SpnDef(596, 65265, 3, 2, 2, 1, 1, 0, "Uint8"),
      SpnDef(86, 65265, 5, 0, 8, 1, 1, 0, "Uint8"),
      SpnDef(976, 65265, 6, 0, 5, 1, 1, 0, "Uint8")>>

\* J1939Client::new groups the table by PGN, keeping the table's order.
pgn_points(pgn) == SelectSeq(SPN_DEFINITIONS, LAMBDA d : d.pgn = pgn)

get_spn_def(spn) ==
    LET found == SelectSeq(SPN_DEFINITIONS, LAMBDA d : d.spn = spn)
    IN  IF found = <<>> THEN None ELSE Some(found[1])

(***************************************************************************)
(* protocols/j1939/client.rs: parse_can_id and decode_spn.  A u64 is held  *)
(* as its four 16-bit words, the highest first.  The f64 that decode_spn   *)
(* returns is held as [hi, lo, den], standing for (hi * 65536 + lo) / den. *)
(***************************************************************************)
\* parse_can_id with PS kept in the PGN for every PDU format.
parse_can_id_with_ps(can_id) ==
    LET sa == can_id % 256
        ps == (can_id \div 256) % 256
        pf == (can_id \div 65536) % 256
        dp == (can_id \div (2 ^ 24)) % 2
        priority == (can_id \div (2 ^ 26)) % 8
        pgn == dp * 65536 + pf * 256 + ps
    IN  [priority |-> priority, pgn |-> pgn, ps |-> ps, sa |-> sa]

parse_can_id(can_id) ==
    LET sa == can_id % 256
        ps == (can_id \div 256) % 256
        pf == (can_id \div 65536) % 256
        dp == (can_id \div (2 ^ 24)) % 2
        priority == (can_id \div (2 ^ 26)) % 8
        pgn == IF pf >= 240
               THEN dp * 65536 + pf * 256 + ps
               ELSE dp * 65536 + pf * 256
    IN  [priority |-> priority, pgn |-> pgn, ps |-> ps, sa |-> sa]

\* `x as u64` of an unsigned value below 2^32 given as two 16-bit words.
U64(w1, w0) == <<0, 0, w1, w0>>

\* `x as i64 as u64` of a signed value: the sign bit fills the upper words.
SignExtend(negative, w1, w0) ==
    IF negative THEN <<65535, 65535, w1, w0>> ELSE <<0, 0, w1, w0>>

\* a >= b on u64.
RECURSIVE U64Ge(_, _)
U64Ge(a, b) ==
    IF a = <<>> THEN TRUE
    ELSE IF a[1] # b[1] THEN a[1] > b[1]
    ELSE U64Ge(Tail(a), Tail(b))

\* Bits i*16 .. i*16+15 of (1u64 << bit_length) - 1, for 0 < bit_length < 64.
MaxWord(bit_length, i) ==
    IF bit_length >= 16 * (i + 1) THEN 65535
    ELSE IF bit_length <= 16 * i THEN 0
    ELSE 2 ^ (bit_length - 16 * i) - 1

max_value(bit_length) ==
    <<MaxWord(bit_length, 3), MaxWord(bit_length, 2),
      MaxWord(bit_length, 1), MaxWord(bit_length, 0)>>

\* max_value - 1; the lowest word of max_value is at least 1.
MaxValueMinusOne(bit_length) ==
    [max_value(bit_length) EXCEPT ![4] = @ - 1]

\* data[idx] of the Rust slice.
Byte(data, idx) == data[idx + 1]

\* The match on point.data_type with from_be_bytes in place of from_le_bytes.
RawValueBigEndian(data, point) ==
    LET idx == point.start_byte
        b0 == Byte(data, idx)
        lo16 == Byte(data, idx + 1) + 256 * Byte(data, idx)
        lo32 == Byte(data, idx + 3) + 256 * Byte(data, idx + 2)
        hi32 == Byte(data, idx + 1) + 256 * Byte(data, idx)
    IN  CASE point.data_type = "Uint8" ->
                IF point.bit_length = 8 /\ point.start_bit = 0
                THEN Some(U64(0, b0))
                ELSE Some(U64(0, (b0 \div (2 ^ point.start_bit))
                                    % (2 ^ point.bit_length)))
          [] point.data_type = "Uint16" ->
                IF idx + 1 >= Len(data) THEN None ELSE Some(U64(0, lo16))
          [] point.data_type = "Uint32" ->
                IF idx + 3 >= Len(data) THEN None ELSE Some(U64(hi32, lo32))
          [] point.data_type = "Int8" ->
                Some(SignExtend(b0 >= 128, IF b0 >= 128 THEN 65535 ELSE 0,
                                IF b0 >= 128 THEN 65280 + b0 ELSE b0))
          [] point.data_type = "Int16" ->
                IF idx + 1 >= Len(data) THEN None
                ELSE Some(SignExtend(lo16 >= 32768,
                                     IF lo16 >= 32768 THEN 65535 ELSE 0, lo16))
          [] OTHER ->
                IF idx + 3 >= Len(data) THEN None
                ELSE Some(SignExtend(hi32 >= 32768, hi32, lo32))

\* The match on point.data_type: Some(raw_value), or None for an early return.
RawValue(data, point) ==
    LET idx == point.start_byte
        b0 == Byte(data, idx)
        lo16 == Byte(data, idx) + 256 * Byte(data, idx + 1)
        hi16 == Byte(data, idx + 2) + 256 * Byte(data, idx + 3)
    IN  CASE point.data_type = "Uint8" ->
                IF point.bit_length = 8 /\ point.start_bit = 0
                THEN Some(U64(0, b0))
                ELSE Some(U64(0, (b0 \div (2 ^ point.start_bit))
                                    % (2 ^ point.bit_length)))
          [] point.data_type = "Uint16" ->
                IF idx + 1 >= Len(data) THEN None ELSE Some(U64(0, lo16))
          [] point.data_type = "Uint32" ->
                IF idx + 3 >= Len(data) THEN None ELSE Some(U64(hi16, lo16))
          [] point.data_type = "Int8" ->
                Some(SignExtend(b0 >= 128, IF b0 >= 128 THEN 65535 ELSE 0,
                                IF b0 >= 128 THEN 65280 + b0 ELSE b0))
          [] point.data_type = "Int16" ->
                IF idx + 1 >= Len(data) THEN None
                ELSE Some(SignExtend(lo16 >= 32768,
                                     IF lo16 >= 32768 THEN 65535 ELSE 0, lo16))
          [] OTHER ->
                IF idx + 3 >= Len(data) THEN None
                ELSE Some(SignExtend(hi16 >= 32768, hi16, lo16))

\* The indexes decode_spn reads with the second index of a 16-bit field
\* read unguarded.
IndexesReadUnguarded(data, point) ==
    LET idx == point.start_byte
    IN  IF Len(data) <= idx THEN {}
        ELSE CASE point.data_type \in {"Uint8", "Int8"} -> {idx}
               [] point.data_type \in {"Uint16", "Int16"} -> {idx, idx + 1}
               [] OTHER -> IF idx + 3 >= Len(data) THEN {} ELSE idx..(idx + 3)

\* The indexes of data that decode_spn reads: none after an early return.
IndexesRead(data, point) ==
    LET idx == point.start_byte
    IN  IF Len(data) <= idx THEN {}
        ELSE CASE point.data_type \in {"Uint8", "Int8"} -> {idx}
               [] point.data_type \in {"Uint16", "Int16"} ->
                     IF idx + 1 >= Len(data) THEN {} ELSE {idx, idx + 1}
               [] OTHER -> IF idx + 3 >= Len(data) THEN {} ELSE idx..(idx + 3)

\* A shift or a subtraction of decode_spn overflows: 1u8 << bit_length and
\* byte >> start_bit of a bit field, 1u64 << bit_length and max_value - 1 of
\* the availability check.
ArithmeticOverflows(data, point) ==
    /\ Len(data) > point.start_byte
    /\ \/ /\ point.data_type = "Uint8"
          /\ ~(point.bit_length = 8 /\ point.start_bit = 0)
          /\ (point.bit_length >= 8 \/ point.start_bit >= 8)
       \/ /\ IndexesRead(data, point) # {}
          /\ (point.bit_length >= 64 \/ point.bit_length = 0)

\* (raw as f64) * scale + offset, for raw below 2^32.
ScaleOffset(raw, point) ==
    LET t == raw[4] * point.scale_num + point.offset * point.scale_den
    IN  [hi |-> raw[3] * point.scale_num + (t \div 65536),
         lo |-> t % 65536,
         den |-> point.scale_den]

\* decode_spn that also takes the two highest bit patterns for values.
decode_spn_all(data, point) ==
    IF Len(data) <= point.start_byte THEN None
    ELSE LET raw == RawValue(data, point)
         IN  IF raw = None THEN None
             ELSE IF raw[1][1] # 0 \/ raw[1][2] # 0 THEN None
             ELSE Some(ScaleOffset(raw[1], point))

decode_spn(data, point) ==
    IF Len(data) <= point.start_byte THEN None
    ELSE LET raw == RawValue(data, point)
         IN  IF raw = None THEN None
             ELSE IF U64Ge(raw[1], MaxValueMinusOne(point.bit_length)) THEN None
             ELSE Some(ScaleOffset(raw[1], point))

(***************************************************************************)
(* protocols/j1939/client.rs: the client.  The record j1939 holds          *)
(*   source_address  J1939Config.source_address                            *)
(*   connection_state, is_connected, read_count, error_count, last_error   *)
(*   receive_handle  0 for None, else the slot of the task it names        *)
(*   tasks           the receive tasks alive, one per slot: where each     *)
(*                   one is (pc, "none" for a free slot), whether abort()  *)
(*                   was called on it, and the event_handler it was given  *)
(*   cached_data     SPN -> Option<DataPoint>                              *)
(*   event_handler   event_handler is Some                                 *)
(*   pc              where the caller's connect() is                       *)
(*   op, result, batch   the step just taken ("task" for a step of a       *)
(*                   receive task) and what the call returned              *)
(*   frame, emitted, event   the frame the step just taken read, the batch *)
(*                   it made of it, and whether it sent the batch to       *)
(*                   event_sender or called on_data_update                 *)
(* A batch of this client is held as the sequence of its points.           *)
(***************************************************************************)
SpnNumbers == {SPN_DEFINITIONS[i].spn : i \in DOMAIN SPN_DEFINITIONS}

\* A slot without a task: none spawned into it, or the task has ended.
NoTask == [pc |-> "none", aborted |-> FALSE, handler |-> FALSE]

FreeSlots(tasks) == {i \in DOMAIN tasks : tasks[i] = NoTask}

FirstFree(tasks) == CHOOSE i \in FreeSlots(tasks) : \A k \in FreeSlots(tasks) : i <= k

NoFrame == [extended |-> FALSE, id |-> 0, data |-> <<>>]

J1939ClientNew(source_address) ==
    [source_address |-> source_address,
     connection_state |-> "Disconnected", is_connected |-> FALSE,
     read_count |-> 0, error_count |-> 0, last_error |-> None,
     receive_handle |-> 0, tasks |-> [i \in 1..MaxTasks |-> NoTask],
     cached_data |-> [spn \in SpnNumbers |-> None],
     event_handler |-> FALSE,
     pc |-> "idle", op |-> "new", result |-> "Ok", batch |-> {},
     frame |-> NoFrame, emitted |-> <<>>, event |-> FALSE]

J1939Call(c, op, result) ==
    [c EXCEPT !.op = op, !.result = result, !.batch = {},
              !.frame = NoFrame, !.emitted = <<>>, !.event = FALSE]

J1939TaskStep(c) == J1939Call(c, "task", "Ok")

\* The points a frame of this PGN decodes to, in the order of pgn_points.
RECURSIVE DecodeAll(_, _)
DecodeAll(points, data) ==
    IF points = <<>> THEN <<>>
    ELSE LET value == decode_spn(data, points[1])
             rest == DecodeAll(Tail(points), data)
         IN  IF value = None THEN rest
             ELSE <<[id |-> points[1].spn, data_type |-> "Telemetry",
                     value |-> [k |-> "Float", v |-> value[1]],
                     quality |-> "Good", timestamp |-> 0]>> \o rest

\* cached_data after the inserts of a batch.
RECURSIVE CacheInsert(_, _)
CacheInsert(cache, batch) ==
    IF batch = <<>> THEN cache
    ELSE CacheInsert([cache EXCEPT ![batch[1].id] = Some(batch[1])], Tail(batch))

\* The Ok(frame) arm without the comparison of the source address.
ProcessFrameAnySource(c, frame, handler) ==
    LET parsed == parse_can_id(frame.id)
        batch == DecodeAll(pgn_points(parsed.pgn), frame.data)
        seen == [c EXCEPT !.frame = frame, !.emitted = <<>>]
    IN  IF ~frame.extended THEN seen
        ELSE IF batch = <<>> THEN seen
        ELSE [seen EXCEPT !.cached_data = CacheInsert(@, batch),
                          !.read_count = @ + 1,
                          !.event = handler,
                          !.emitted = batch]

\* The Ok(frame) arm of the receive loop, for a task given the handler flag.
ProcessFrame(c, frame, handler) ==
    LET parsed == parse_can_id(frame.id)
        batch == DecodeAll(pgn_points(parsed.pgn), frame.data)
        seen == [c EXCEPT !.frame = frame, !.emitted = <<>>]
    IN  IF ~frame.extended THEN seen
        ELSE IF parsed.sa # c.source_address THEN seen
        ELSE IF batch = <<>> THEN seen
        ELSE [seen EXCEPT !.cached_data = CacheInsert(@, batch),
                          !.read_count = @ + 1,
                          !.event = handler,
                          !.emitted = batch]

\* CAN frames the socket may deliver: engine speed frames (PGN 61444) from
\* source addresses 0 and 1, a coolant temperature frame (PGN 65262) from
\* source address 1, a PGN 65262 frame whose every field is "not
\* available", a PGN outside the table, and a standard (11-bit) frame.
S3Data == <<0, 0, 0, 0, 244, 1, 0, 0, 0>>

EngineSpeedData == <<0, 0, 0, 244, 1, 0, 0, 0>>

J1939Frames ==
    {[extended |-> TRUE, id |-> 217056256, data |-> S3Data],
     [extended |-> TRUE, id |-> 217056256, data |-> EngineSpeedData],
     [extended |-> TRUE, id |-> 217056257, data |-> EngineSpeedData],
     [extended |-> TRUE, id |-> 419360257, data |-> <<130, 255, 255, 255, 255, 255, 255, 255>>],
     [extended |-> TRUE, id |-> 419360256, data |-> <<255, 255, 255, 255, 255, 255, 255, 255>>],
     [extended |-> TRUE, id |-> 418316032, data |-> <<1, 2, 3, 4, 5, 6, 7, 8>>],
     [extended |-> FALSE, id |-> 256, data |-> <<130, 0, 0, 0, 0, 0, 0, 0>>]}

J1939Requests ==
    {[data_type |-> None, point_ids |-> None],
     [data_type |-> Some("Telemetry"), point_ids |-> None],
     [data_type |-> None, point_ids |-> Some(<<190, 9999>>)],
     [data_type |-> Some("Signal"), point_ids |-> Some(<<190>>)]}

Cached(cache) == {cache[spn][1] : spn \in {n \in SpnNumbers : cache[n] # None}}

CachedAt(cache, ids) ==
    {cache[ids[i]][1] : i \in {k \in DOMAIN ids : ids[k] \in SpnNumbers /\ cache[ids[k]] # None}}

\* The points of the batch read() answers with; the order of the batch,
\* which for the values() arms is the map's, is not kept.
J1939ReadBatch(cache, request) ==
    IF request.data_type = None /\ request.point_ids = None THEN Cached(cache)
    ELSE IF request.data_type = Some("Telemetry") /\ request.point_ids = None
         THEN {p \in Cached(cache) : p.data_type = "Telemetry"}
    ELSE IF request.data_type = None
         THEN CachedAt(cache, request.point_ids[1])
    ELSE IF request.point_ids # None
         THEN {p \in CachedAt(cache, request.point_ids[1]) :
                   p.data_type = request.data_type[1]}
    ELSE {}

j1939_read(request) ==
    /\ j1939.pc = "idle"
    /\ j1939' = [J1939Call(j1939, "read", "Ok") EXCEPT
                    !.batch = J1939ReadBatch(j1939.cached_data, request)]
    /\ UNCHANGED <<routerVars, vc, mb, gpio, probe>>

\* connect() up to the attempt to open the CAN interface.
j1939_connect ==
    /\ j1939.pc = "idle"
    /\ j1939' = [J1939Call(j1939, "connect", "Pending") EXCEPT
                    !.connection_state = "Connecting", !.pc = "connecting"]
    /\ UNCHANGED <<routerVars, vc, mb, gpio, probe>>

\* The rest of connect(): CanSocket::open fails and `?` returns, or it
\* succeeds and the receive task is spawned.
j1939_connect_open(open_ok) ==
    /\ j1939.pc = "connecting"
    /\ open_ok => FreeSlots(j1939.tasks) # {}
    /\ j1939' =
         IF ~open_ok
         THEN [J1939Call(j1939, "connect", "Connection") EXCEPT !.pc = "idle"]
         ELSE [J1939Call(j1939, "connect", "Ok") EXCEPT
                 !.pc = "idle",
                 !.is_connected = TRUE,
                 !.connection_state = "Connected",
                 !.tasks[FirstFree(j1939.tasks)] =
                     [pc |-> "spawned", aborted |-> FALSE,
                      handler |-> j1939.event_handler],
                 !.receive_handle = FirstFree(j1939.tasks)]
    /\ UNCHANGED <<routerVars, vc, mb, gpio, probe>>

\* abort() drops a task that was never polled and only marks a running
\* one.
Abort(task) ==
    IF task.pc \in {"spawned", "none"} THEN NoTask
    ELSE [task EXCEPT !.aborted = TRUE]

j1939_disconnect ==
    /\ j1939.pc = "idle"
    /\ j1939' = [J1939Call(j1939, "disconnect", "Ok") EXCEPT
                    !.is_connected = FALSE,
                    !.tasks = IF j1939.receive_handle = 0 THEN @
                              ELSE [@ EXCEPT ![j1939.receive_handle] = Abort(@)],
                    !.receive_handle = 0,
                    !.connection_state = "Disconnected"]
    /\ UNCHANGED <<routerVars, vc, mb, gpio, probe>>

j1939_write_control(commands) ==
    /\ j1939.pc = "idle"
    /\ j1939' = J1939Call(j1939, "write_control", "NotSupported")
    /\ UNCHANGED <<routerVars, vc, mb, gpio, probe>>

j1939_write_adjustment(adjustments) ==
    /\ j1939.pc = "idle"
    /\ j1939' = J1939Call(j1939, "write_adjustment", "NotSupported")
    /\ UNCHANGED <<routerVars, vc, mb, gpio, probe>>

\* The caller sets its handler once, before the first connect.
j1939_set_event_handler ==
    /\ j1939.pc = "idle"
    /\ ~j1939.event_handler
    /\ FreeSlots(j1939.tasks) = DOMAIN j1939.tasks
    /\ j1939.connection_state = "Disconnected"
    /\ j1939' = [J1939Call(j1939, "set_event_handler", "Ok") EXCEPT
                    !.event_handler = TRUE]
    /\ UNCHANGED <<routerVars, vc, mb, gpio, probe>>

\* The receive task.  A task is "spawned" until it is first polled, then
\* opens its socket, then alternates between the is_connected check
\* ("loop") and the blocking socket.read_frame() ("read_frame").  An
\* aborted task inside read_frame() goes on until it next yields.

j1939_task_open(i, open_ok) ==
    /\ j1939.pc # "unused"
    /\ i \in DOMAIN j1939.tasks
    /\ j1939.tasks[i].pc = "spawned"
    /\ open_ok \/ j1939.error_count < MaxErrors
    /\ j1939' =
         IF open_ok
         THEN [J1939TaskStep(j1939) EXCEPT !.tasks[i].pc = "loop"]
         ELSE [J1939TaskStep(j1939) EXCEPT !.tasks[i] = NoTask,
                            !.last_error = Some("Failed to open CAN socket"),
                            !.error_count = @ + 1]
    /\ UNCHANGED <<routerVars, vc, mb, gpio, probe>>

j1939_task_check(i) ==
    /\ j1939.pc # "unused"
    /\ i \in DOMAIN j1939.tasks
    /\ j1939.tasks[i].pc = "loop"
    /\ j1939' = [J1939TaskStep(j1939) EXCEPT
                    !.tasks[i] = IF j1939.is_connected
                                 THEN [@ EXCEPT !.pc = "read_frame"]
                                 ELSE NoTask]
    /\ UNCHANGED <<routerVars, vc, mb, gpio, probe>>

\* read_frame() returns a frame.  An aborted task is dropped at the first
\* await that yields: it may yield after the frame (cancelled) or not.
j1939_task_frame(i, frame, cancelled) ==
    /\ j1939.pc # "unused"
    /\ i \in DOMAIN j1939.tasks
    /\ j1939.tasks[i].pc = "read_frame"
    /\ cancelled => j1939.tasks[i].aborted
    /\ j1939.read_count < MaxCount
    /\ j1939' = [ProcessFrame(J1939TaskStep(j1939), frame, j1939.tasks[i].handler) EXCEPT
                    !.tasks[i] = IF cancelled THEN NoTask
                                 ELSE [@ EXCEPT !.pc = "loop"]]
    /\ UNCHANGED <<routerVars, vc, mb, gpio, probe>>

\* read_frame() returns an error; the sleep that follows yields.
j1939_task_read_error(i) ==
    /\ j1939.pc # "unused"
    /\ i \in DOMAIN j1939.tasks
    /\ j1939.tasks[i].pc = "read_frame"
    /\ j1939.error_count < MaxErrors
    /\ j1939' = [J1939TaskStep(j1939) EXCEPT
                    !.last_error = Some("CAN read error"),
                    !.error_count = @ + 1,
                    !.tasks[i] = IF @.aborted THEN NoTask
                                 ELSE [@ EXCEPT !.pc = "loop"]]
    /\ UNCHANGED <<routerVars, vc, mb, gpio, probe>>

(***************************************************************************)
(* SpecChannels: one protocol channel, a ModbusTcpClient, a GpioChannel    *)
(* or a J1939Client, under any order of the calls of its traits and, for   *)
(* J1939, the steps of its receive tasks.                                  *)
(***************************************************************************)
GpioRequests == {None, Some({"di"}), Some({"do", "don"})}

ConfiguredSourceAddresses == {0}

InitChannels ==
    /\ InitRouter(TDirect, NoTargets)
    /\ vc = VcIdle
    /\ probe = VcIdle
    /\ \/ mb = ModbusNew /\ gpio = VcIdle /\ j1939 = VcIdle
       \/ mb = VcIdle /\ gpio = GpioNew /\ j1939 = VcIdle
       \/ /\ mb = VcIdle /\ gpio = VcIdle
          /\ \E sa \in ConfiguredSourceAddresses : j1939 = J1939ClientNew(sa)

NextModbus ==
    \/ modbus_connect
    \/ modbus_connected
    \/ modbus_disconnect
    \/ modbus_read
    \/ \E commands \in ControlCommands : modbus_write_control(commands)
    \/ \E adjustments \in AdjustmentCommands : modbus_write_adjustment(adjustments)
    \/ modbus_start_polling

NextGpio ==
    \/ gpio_connect
    \/ gpio_disconnect
    \/ \E request \in GpioRequests : gpio_read(request)
    \/ \E commands \in ControlCommands : gpio_write_control(commands)
    \/ \E adjustments \in AdjustmentCommands : gpio_write_adjustment(adjustments)
    \/ gpio_start_polling
    \/ gpio_stop_polling
    \/ gpio_poll_tick

NextJ1939 ==
    \/ j1939_connect
    \/ \E open_ok \in BOOLEAN : j1939_connect_open(open_ok)
    \/ j1939_disconnect
    \/ \E request \in J1939Requests : j1939_read(request)
    \/ \E commands \in ControlCommands : j1939_write_control(commands)
    \/ \E adjustments \in AdjustmentCommands : j1939_write_adjustment(adjustments)
    \/ j1939_set_event_handler
    \/ \E i \in 1..MaxTasks, open_ok \in BOOLEAN : j1939_task_open(i, open_ok)
    \/ \E i \in 1..MaxTasks : j1939_task_check(i)
    \/ \E i \in 1..MaxTasks, frame \in J1939Frames, cancelled \in BOOLEAN :
          j1939_task_frame(i, frame, cancelled)
    \/ \E i \in 1..MaxTasks : j1939_task_read_error(i)

NextChannels == NextModbus \/ NextGpio \/ NextJ1939

SpecChannels == InitChannels /\ [][NextChannels]_vars

(***************************************************************************)
(* SpecReconnect: one J1939Client under connect and disconnect in any      *)
(* order, connect on a connected client included, with room for one more   *)
(* receive task than SpecChannels gives it.                                *)
(***************************************************************************)
InitReconnect ==
    /\ InitRouter(TDirect, NoTargets)
    /\ vc = VcIdle /\ mb = VcIdle /\ gpio = VcIdle /\ probe = VcIdle
    /\ j1939 = [J1939ClientNew(0) EXCEPT
                   !.tasks = [i \in 1..(MaxTasks + 1) |-> NoTask]]

NextReconnect ==
    \/ j1939_connect
    \/ \E open_ok \in BOOLEAN : j1939_connect_open(open_ok)
    \/ j1939_disconnect
    \/ \E i \in DOMAIN j1939.tasks, open_ok \in BOOLEAN : j1939_task_open(i, open_ok)
    \/ \E i \in DOMAIN j1939.tasks : j1939_task_check(i)
    \/ \E i \in DOMAIN j1939.tasks, frame \in J1939Frames, cancelled \in BOOLEAN :
          j1939_task_frame(i, frame, cancelled)
    \/ \E i \in DOMAIN j1939.tasks : j1939_task_read_error(i)

SpecReconnect == InitReconnect /\ [][NextReconnect]_vars

(***************************************************************************)
(* SpecCounters: each of the four channels alone, under any order of its   *)
(* calls, with what its diagnostics() reports.                             *)
(***************************************************************************)
ModbusDiagnostics ==
    [read_count |-> mb.read_count, write_count |-> mb.write_count,
     error_count |-> mb.error_count]

GpioDiagnostics ==
    [read_count |-> gpio.read_count, write_count |-> gpio.write_count,
     error_count |-> gpio.error_count]

J1939Diagnostics ==
    [read_count |-> j1939.read_count, write_count |-> 0,
     error_count |-> j1939.error_count]

\* diagnostics() of the channel that is there.
Diagnostics ==
    IF vc # VcIdle
    THEN [read_count |-> VcDiagnostics.read_count, write_count |-> VcDiagnostics.write_count,
          error_count |-> VcDiagnostics.error_count]
    ELSE IF mb # VcIdle THEN ModbusDiagnostics
    ELSE IF gpio # VcIdle THEN GpioDiagnostics
    ELSE J1939Diagnostics

InitCounters == InitVC \/ InitChannels

\* The calls of the virtual channel that its diagnostics count.
NextVcCalls ==
    \/ \E batch \in VcBatches : write(batch)
    \/ \E point \in VcPoints : write_point(point)
    \/ \E commands \in VcControls : write_control(commands)
    \/ \E adjustments \in VcAdjustments : write_adjustment(adjustments)
    \/ write_send
    \/ vc_read
    \/ VcConnect
    \/ VcDisconnect

NextCounters == NextVcCalls \/ NextChannels

SpecCounters == InitCounters /\ [][NextCounters]_vars

(***************************************************************************)
(* gateway/address.rs: parse_address.  A &str is held as the sequence of   *)
(* its characters; a Result as [ok |-> TRUE, addr |-> ...] or              *)
(* [ok |-> FALSE, err |-> kind].                                           *)
(***************************************************************************)
DigitChars == <<"0", "1", "2", "3", "4", "5", "6", "7", "8", "9">>

UpperChars ==
    <<"A", "B", "C", "D", "E", "F", "G", "H", "I", "J", "K", "L", "M",
      "N", "O", "P", "Q", "R", "S", "T", "U", "V", "W", "X", "Y", "Z">>

LowerChars ==
    <<"a", "b", "c", "d", "e", "f", "g", "h", "i", "j", "k", "l", "m",
      "n", "o", "p", "q", "r", "s", "t", "u", "v", "w", "x", "y", "z">>

IndexOf(chars, c) ==
    IF \E i \in DOMAIN chars : chars[i] = c
    THEN CHOOSE i \in DOMAIN chars : chars[i] = c
    ELSE 0

\* The text as written: a comparison that minds the letter case.
keep_case(str) == str

\* str::to_lowercase on ASCII text.
to_lowercase(str) ==
    [i \in DOMAIN str |->
        IF IndexOf(UpperChars, str[i]) # 0
        THEN LowerChars[IndexOf(UpperChars, str[i])]
        ELSE str[i]]

\* str::split(sep).collect(): the parts between the separators; the empty
\* string has the one part "".
RECURSIVE SplitFrom(_, _, _)
SplitFrom(str, sep, part) ==
    IF str = <<>> THEN <<part>>
    ELSE IF str[1] = sep THEN <<part>> \o SplitFrom(Tail(str), sep, <<>>)
    ELSE SplitFrom(Tail(str), sep, Append(part, str[1]))

split(str, sep) == SplitFrom(str, sep, <<>>)

\* The digits of str::parse for an unsigned type: checked multiply and add,
\* None on a character that is no digit or on a value above max.
RECURSIVE ParseDigits(_, _, _)
ParseDigits(digits, acc, max) ==
    IF digits = <<>> THEN Some(acc)
    ELSE LET d == IndexOf(DigitChars, digits[1])
         IN  IF d = 0 THEN None
             ELSE IF acc * 10 + (d - 1) > max THEN None
             ELSE ParseDigits(Tail(digits), acc * 10 + (d - 1), max)

\* str::parse::<u8/u16/u32>(): an optional leading "+", then at least one
\* digit; "" and a bare sign are errors, and so is "-".  u32::MAX is beyond
\* the integers of the model: a u32 text is taken in range up to
\* 2147483647, which holds for every text of nine digits or less.
ParseUnsigned(str, max) ==
    IF str = <<>> THEN None
    ELSE LET digits == IF str[1] = "+" THEN Tail(str) ELSE str
         IN  IF digits = <<>> THEN None ELSE ParseDigits(digits, 0, max)

MaxU8 == 255

MaxU16 == 65535

AddrOk(addr) == [ok |-> TRUE, addr |-> addr]

AddrErr(kind) == [ok |-> FALSE, err |-> kind]

holding_register(slave_id, register, format) ==
    [kind |-> "Modbus", slave_id |-> slave_id, function_code |-> 3,
     register |-> register, format |-> format, byte_order |-> "Abcd",
     bit_position |-> None]

parse_modbus_address(address) ==
    LET parts == split(address, ":")
        slave_id == ParseUnsigned(parts[1], MaxU8)
        register == ParseUnsigned(parts[2], MaxU16)
        function_code == ParseUnsigned(parts[3], MaxU8)
    IN  IF Len(parts) = 2
        THEN IF slave_id = None THEN AddrErr("Config")
             ELSE IF register = None THEN AddrErr("Config")
             ELSE AddrOk(holding_register(slave_id[1], register[1], "UInt16"))
        ELSE IF Len(parts) = 3
        THEN IF slave_id = None THEN AddrErr("Config")
             ELSE IF register = None THEN AddrErr("Config")
             ELSE IF function_code = None THEN AddrErr("Config")
             ELSE AddrOk([kind |-> "Modbus", slave_id |-> slave_id[1],
                          function_code |-> function_code[1],
                          register |-> register[1], format |-> "UInt16",
                          byte_order |-> "Abcd", bit_position |-> None])
        ELSE AddrErr("Config")

parse_iec104_address(address) ==
    LET parts == split(address, ":")
        ioa == ParseUnsigned(parts[1], 2147483647)
        type_id == ParseUnsigned(parts[2], MaxU8)
    IN  IF Len(parts) = 1
        THEN IF ioa = None THEN AddrErr("Config")
             ELSE AddrOk([kind |-> "Iec104", ioa |-> ioa[1], type_id |-> 0,
                          common_address |-> 1])
        ELSE IF Len(parts) = 2
        THEN IF ioa = None THEN AddrErr("Config")
             ELSE IF type_id = None THEN AddrErr("Config")
             ELSE AddrOk([kind |-> "Iec104", ioa |-> ioa[1],
                          type_id |-> type_id[1], common_address |-> 1])
        ELSE AddrErr("Config")

starts_with(str, prefix) ==
    Len(str) >= Len(prefix) /\ SubSeq(str, 1, Len(prefix)) = prefix

\* str::find(c): the 0-based index of the first c, or None.
find(str, c) ==
    IF IndexOf(str, c) = 0 THEN None
    ELSE Some((CHOOSE i \in DOMAIN str :
                  str[i] = c /\ \A k \in 1..(i - 1) : str[k] # c) - 1)

IsNodeId(node_id) ==
    \/ starts_with(node_id, <<"i", "=">>)
    \/ starts_with(node_id, <<"s", "=">>)
    \/ starts_with(node_id, <<"g", "=">>)
    \/ starts_with(node_id, <<"b", "=">>)

parse_opcua_address(address) ==
    LET semi_pos == find(address, ";")
        ns_str == SubSeq(address, 4, semi_pos[1])
        namespace_index == ParseUnsigned(ns_str, MaxU16)
        node_id == SubSeq(address, semi_pos[1] + 2, Len(address))
    IN  IF starts_with(address, <<"n", "s", "=">>)
        THEN IF semi_pos = None THEN AddrErr("Config")
             ELSE IF namespace_index = None THEN AddrErr("Config")
             ELSE IF ~IsNodeId(node_id) THEN AddrErr("Config")
             ELSE AddrOk([kind |-> "OpcUa", node_id |-> node_id,
                          namespace_index |-> namespace_index[1]])
        ELSE IF ~IsNodeId(address) THEN AddrErr("Config")
        ELSE AddrOk([kind |-> "OpcUa", node_id |-> address, namespace_index |-> 0])

parse_can_address(address) == AddrOk([kind |-> "Generic", address |-> address])

GpioAddress(chip, pin, direction) ==
    [kind |-> "Gpio", chip |-> chip, pin |-> pin, direction |-> direction,
     active_low |-> FALSE]

GpioChip0 == <<"g", "p", "i", "o", "c", "h", "i", "p", "0">>

GpioInputWords == {<<"i", "n", "p", "u", "t">>, <<"i", "n">>, <<"d", "i">>}

GpioOutputWords == {<<"o", "u", "t", "p", "u", "t">>, <<"o", "u", "t">>, <<"d", "o">>}

parse_gpio_address(address) ==
    LET parts == split(address, ":")
        pin1 == ParseUnsigned(parts[1], 2147483647)
        pin2 == ParseUnsigned(parts[2], 2147483647)
        word == to_lowercase(parts[3])
    IN  IF Len(parts) = 1
        THEN IF pin1 = None THEN AddrErr("Config")
             ELSE AddrOk(GpioAddress(GpioChip0, pin1[1], "Input"))
        ELSE IF Len(parts) = 2
        THEN IF pin2 = None THEN AddrErr("Config")
             ELSE AddrOk(GpioAddress(parts[1], pin2[1], "Input"))
        ELSE IF Len(parts) = 3
        THEN IF pin2 = None THEN AddrErr("Config")
             ELSE IF word \in GpioInputWords
                  THEN AddrOk(GpioAddress(parts[1], pin2[1], "Input"))
             ELSE IF word \in GpioOutputWords
                  THEN AddrOk(GpioAddress(parts[1], pin2[1], "Output"))
             ELSE AddrErr("Config")
        ELSE AddrErr("Config")

Chars(word) ==
    CASE word = "modbus" -> <<"m", "o", "d", "b", "u", "s">>
      [] word = "iec104" -> <<"i", "e", "c", "1", "0", "4">>
      [] word = "opcua" -> <<"o", "p", "c", "u", "a">>
      [] word = "can" -> <<"c", "a", "n">>
      [] word = "gpio" -> <<"g", "p", "i", "o">>
      [] word = "virtual" -> <<"v", "i", "r", "t", "u", "a", "l">>

parse_address(protocol, address) ==
    LET keyword == to_lowercase(protocol)
    IN  CASE keyword = Chars("modbus") -> parse_modbus_address(address)
          [] keyword = Chars("iec104") -> parse_iec104_address(address)
          [] keyword = Chars("opcua") -> parse_opcua_address(address)
          [] keyword = Chars("can") -> parse_can_address(address)
          [] keyword = Chars("gpio") -> parse_gpio_address(address)
          [] keyword = Chars("virtual") ->
                AddrOk([kind |-> "Virtual", group |-> None, tag |-> address])
          [] OTHER -> AddrErr("Config")

(***************************************************************************)
(* SpecAddress: parse_address over protocol keywords and addresses joined  *)
(* from one to four fields.  Each field is a text with the number it       *)
(* writes in decimal, or -1 when it writes none.  probe holds the          *)
(* keyword, the fields, the joined address and, once parsed, the result.   *)
(***************************************************************************)
FieldTexts ==
    {[text |-> <<"0">>, value |-> 0],
     [text |-> <<"1">>, value |-> 1],
     [text |-> <<"+", "5">>, value |-> 5],
     [text |-> <<"7">>, value |-> 7],
     [text |-> <<"2", "5", "5">>, value |-> 255],
     [text |-> <<"2", "5", "6">>, value |-> 256],
     [text |-> <<"6", "5", "5", "3", "5">>, value |-> 65535],
     [text |-> <<"6", "5", "5", "3", "6">>, value |-> 65536],
     [text |-> <<"-", "1">>, value |-> -1],
     [text |-> <<"x">>, value |-> -1],
     [text |-> <<>>, value |-> -1]}

MaxFields == 4

ProtocolKeywords ==
    {<<"m", "o", "d", "b", "u", "s">>, <<"M", "O", "D", "B", "U", "S">>,
     <<"M", "o", "d", "B", "u", "s">>, <<"m", "q", "t", "t">>,
     <<"m", "o", "d", "b", "u", "s", "2">>}

RECURSIVE Join(_)
Join(fields) ==
    IF Len(fields) = 1 THEN fields[1].text
    ELSE fields[1].text \o <<":">> \o Join(Tail(fields))

NoAddress == AddrErr("none")

InitAddress ==
    /\ InitRouter(TDirect, NoTargets)
    /\ vc = VcIdle /\ mb = VcIdle /\ gpio = VcIdle /\ j1939 = VcIdle
    /\ \E protocol \in ProtocolKeywords, n \in 1..MaxFields :
          \E fields \in [1..n -> FieldTexts] :
              probe = [pc |-> "input", protocol |-> protocol, fields |-> fields,
                       address |-> Join(fields), result |-> NoAddress]

AddressStep ==
    /\ probe.pc = "input"
    /\ probe' = [probe EXCEPT !.pc = "parsed",
                              !.result = parse_address(probe.protocol, probe.address)]
    /\ UNCHANGED <<routerVars, vc, mb, gpio, j1939>>

NextAddress == AddressStep

SpecAddress == InitAddress /\ [][NextAddress]_vars

(***************************************************************************)
(* gateway/factory.rs: create_channel and build_point_configs.  A point    *)
(* definition is [id, address, enabled]; a channel configuration is        *)
(* [protocol, params_ok, points], params_ok telling whether the            *)
(* parameters deserialize.  The result is the channel's point list, or     *)
(* the error; it carries no list of failed points.                         *)
(***************************************************************************)
PointDef(id, address, enabled) == [id |-> id, address |-> address, enabled |-> enabled]

ChannelOk(points) == [ok |-> TRUE, points |-> points, failed_points |-> <<>>]

ChannelErr(kind) == [ok |-> FALSE, err |-> kind]

\* The variant that skips a point whose address does not parse.
RECURSIVE build_point_configs_skipping(_, _)
build_point_configs_skipping(protocol, defs) ==
    IF defs = <<>> THEN [ok |-> TRUE, points |-> <<>>]
    ELSE LET point_def == Head(defs)
             rest == build_point_configs_skipping(protocol, Tail(defs))
             address == parse_address(protocol, point_def.address)
         IN  IF ~point_def.enabled \/ ~address.ok THEN rest
             ELSE [ok |-> TRUE,
                   points |-> <<[id |-> point_def.id, address |-> address.addr,
                                 poll_group |-> None, enabled |-> TRUE]>>
                              \o rest.points]

\* for point_def in &config.points: a disabled point is skipped, the first
\* address that does not parse returns its error ('?'), any other point is
\* pushed with enabled: true.
RECURSIVE build_point_configs(_, _)
build_point_configs(protocol, defs) ==
    IF defs = <<>> THEN [ok |-> TRUE, points |-> <<>>]
    ELSE LET point_def == Head(defs)
             address == parse_address(protocol, point_def.address)
         IN  IF ~point_def.enabled THEN build_point_configs(protocol, Tail(defs))
             ELSE IF ~address.ok THEN [ok |-> FALSE, err |-> address.err]
             ELSE LET rest == build_point_configs(protocol, Tail(defs))
                  IN  IF ~rest.ok THEN rest
                      ELSE [ok |-> TRUE,
                            points |-> <<[id |-> point_def.id, address |-> address.addr,
                                          poll_group |-> None, enabled |-> TRUE]>>
                                       \o rest.points]

create_modbus_channel(config) ==
    IF ~config.params_ok THEN ChannelErr("Config")
    ELSE LET points == build_point_configs(config.protocol, config.points)
         IN  IF points.ok THEN ChannelOk(points.points) ELSE ChannelErr(points.err)

\* The parameters are optional: unwrap_or_default.
create_virtual_channel(config) ==
    LET points == build_point_configs(config.protocol, config.points)
    IN  IF points.ok THEN ChannelOk(points.points) ELSE ChannelErr(points.err)

create_channel(config) ==
    LET keyword == to_lowercase(config.protocol)
    IN  CASE keyword = Chars("modbus") -> create_modbus_channel(config)
          [] keyword = Chars("virtual") -> create_virtual_channel(config)
          [] OTHER -> ChannelErr("Config")

(***************************************************************************)
(* SpecFactory: create_channel over channel configurations of up to        *)
(* MaxPoints point definitions.  probe holds the configuration and, once   *)
(* the channel is created, the result.                                     *)
(***************************************************************************)
MaxPoints == 3

FactoryProtocols ==
    {<<"m", "o", "d", "b", "u", "s">>, <<"M", "o", "d", "b", "u", "s">>,
     <<"v", "i", "r", "t", "u", "a", "l">>, <<"m", "q", "t", "t">>}

FactoryAddresses == {<<"1", ":", "1", "0", "0">>, <<"1", ":", "x">>}

PointDefs == {PointDef(id, address, enabled) : id \in 1..2, address \in FactoryAddresses, enabled \in BOOLEAN}

InitFactory ==
    /\ InitRouter(TDirect, NoTargets)
    /\ vc = VcIdle /\ mb = VcIdle /\ gpio = VcIdle /\ j1939 = VcIdle
    /\ \E protocol \in FactoryProtocols, params_ok \in BOOLEAN, n \in 0..MaxPoints :
          \E points \in [1..n -> PointDefs] :
              probe = [pc |-> "config",
                       config |-> [protocol |-> protocol, params_ok |-> params_ok,
                                   points |-> points],
                       result |-> ChannelErr("none")]

FactoryStep ==
    /\ probe.pc = "config"
    /\ probe' = [probe EXCEPT !.pc = "created", !.result = create_channel(probe.config)]
    /\ UNCHANGED <<routerVars, vc, mb, gpio, j1939>>

NextFactory == FactoryStep

SpecFactory == InitFactory /\ [][NextFactory]_vars

(***************************************************************************)
(* core/quality.rs: Quality and its OPC UA status codes.  A u32 status is  *)
(* the pair <<high 16 bits, low 16 bits>>.                                 *)
(***************************************************************************)
Qualities ==
    {"Good", "Bad", "Uncertain", "Invalid", "NotConnected", "DeviceFailure",
     "SensorFailure", "CommFailure", "OutOfService", "Substituted", "Overflow",
     "Underflow", "ConfigError", "LastKnown"}

to_opc_status(q) ==
    CASE q = "Good" -> <<0, 0>>
      [] q = "Bad" -> <<32768, 0>>
      [] q = "Uncertain" -> <<16384, 0>>
      [] q = "Invalid" -> <<32769, 0>>
      [] q = "NotConnected" -> <<32776, 0>>
      [] q = "DeviceFailure" -> <<32784, 0>>
      [] q = "SensorFailure" -> <<32785, 0>>
      [] q = "CommFailure" -> <<32787, 0>>
      [] q = "OutOfService" -> <<32903, 0>>
      [] q = "Substituted" -> <<16530, 0>>
      [] q = "Overflow" -> <<32888, 0>>
      [] q = "Underflow" -> <<32888, 0>>
      [] q = "ConfigError" -> <<32905, 0>>
      [] q = "LastKnown" -> <<16527, 0>>

\* status & 0xC0000000: the two highest bits of the high word, the low word
\* cleared.
SeverityMask(status) == <<(status[1] \div 16384) * 16384, 0>>

\* The variant that looks at the highest bit only (status & 0x80000000).
from_opc_status_top_bit(status) ==
    LET severity == <<(status[1] \div 32768) * 32768, 0>>
    IN  CASE severity = <<0, 0>> -> "Good"
          [] severity = <<16384, 0>> -> "Uncertain"
          [] OTHER -> "Bad"

from_opc_status(status) ==
    LET severity == SeverityMask(status)
    IN  CASE severity = <<0, 0>> -> "Good"
          [] severity = <<16384, 0>> -> "Uncertain"
          [] OTHER -> "Bad"

(***************************************************************************)
(* SpecQuality: a Quality converted to its status and back, and            *)
(* from_opc_status on statuses of every severity.  probe holds the         *)
(* quality (or "none"), the status and, once converted, the result.        *)
(***************************************************************************)
HighWords == {s * 16384 + d : s \in 0..3, d \in {0, 1, 143, 146, 16383}}

LowWords == {0, 1, 65535}

InitQuality ==
    /\ InitRouter(TDirect, NoTargets)
    /\ vc = VcIdle /\ mb = VcIdle /\ gpio = VcIdle /\ j1939 = VcIdle
    /\ \/ \E q \in Qualities :
             probe = [pc |-> "quality", quality |-> q, status |-> <<0, 0>>,
                      result |-> "none"]
       \/ \E hi \in HighWords, lo \in LowWords :
             probe = [pc |-> "status", quality |-> "none", status |-> <<hi, lo>>,
                      result |-> "none"]

ToOpcStatusStep ==
    /\ probe.pc = "quality"
    /\ probe' = [probe EXCEPT !.pc = "status", !.status = to_opc_status(probe.quality)]
    /\ UNCHANGED <<routerVars, vc, mb, gpio, j1939>>

FromOpcStatusStep ==
    /\ probe.pc = "status"
    /\ probe' = [probe EXCEPT !.pc = "converted", !.result = from_opc_status(probe.status)]
    /\ UNCHANGED <<routerVars, vc, mb, gpio, j1939>>

NextQuality == ToOpcStatusStep \/ FromOpcStatusStep

SpecQuality == InitQuality /\ [][NextQuality]_vars

(***************************************************************************)
(* SpecBatch: a DataBatch under any sequence of add and merge calls.       *)
(* probe holds the batch, the last call and the points in the order they   *)
(* were added, a merged batch contributing the points in the order they    *)
(* were added to it.                                                       *)
(***************************************************************************)
MaxAdded == 4

BatchPoints ==
    {telemetry(1, VFloat(10), 0), telemetry(2, VFloat(20), 0), signal(1, TRUE, 0),
     signal(2, FALSE, 0), control(1, TRUE, 0), adjustment(1, VFloat(10), 0)}

InitBatch ==
    /\ InitRouter(TDirect, NoTargets)
    /\ vc = VcIdle /\ mb = VcIdle /\ gpio = VcIdle /\ j1939 = VcIdle
    /\ probe = [pc |-> "batch", op |-> "new", batch |-> DataBatchNew, added |-> <<>>]

BatchAddStep(point) ==
    /\ probe.pc = "batch"
    /\ Len(probe.added) < MaxAdded
    /\ probe' = [probe EXCEPT !.op = "add", !.batch = BatchAdd(@, point),
                              !.added = Append(@, point)]
    /\ UNCHANGED <<routerVars, vc, mb, gpio, j1939>>

BatchMergeStep(points) ==
    /\ probe.pc = "batch"
    /\ Len(probe.added) + Len(points) <= MaxAdded
    /\ probe' = [probe EXCEPT !.op = "merge", !.batch = BatchMerge(@, BatchOf(points)),
                              !.added = @ \o points]
    /\ UNCHANGED <<routerVars, vc, mb, gpio, j1939>>

NextBatch ==
    \/ \E point \in BatchPoints : BatchAddStep(point)
    \/ \E n \in 0..MaxBatch : \E points \in [1..n -> BatchPoints] : BatchMergeStep(points)

SpecBatch == InitBatch /\ [][NextBatch]_vars

(***************************************************************************)
(* SpecParse: parse_can_id over identifiers composed from their fields.    *)
(* probe holds the fields, the identifier and, once parsed, the result.    *)
(***************************************************************************)
Priorities == {0, 3, 6, 7}

DataPages == {0, 1}

PduFormats == {0, 127, 239, 240, 254, 255}

PduSpecifics == {0, 4, 238, 255}

SourceAddresses == {0, 1, 255}

CanIdFields ==
    [priority : Priorities, dp : DataPages, pf : PduFormats,
     ps : PduSpecifics, sa : SourceAddresses]

CanIdOf(f) ==
    f.priority * 67108864 + f.dp * 16777216 + f.pf * 65536 + f.ps * 256 + f.sa

NoParse == [priority |-> 0, pgn |-> 0, ps |-> 0, sa |-> 0]

InitParse ==
    /\ InitRouter(TDirect, NoTargets)
    /\ vc = VcIdle /\ mb = VcIdle /\ gpio = VcIdle /\ j1939 = VcIdle
    /\ \E f \in CanIdFields :
          probe = [pc |-> "input", fields |-> f, can_id |-> CanIdOf(f),
                   result |-> NoParse]

ParseStep ==
    /\ probe.pc = "input"
    /\ probe' = [probe EXCEPT !.pc = "parsed", !.result = parse_can_id(probe.can_id)]
    /\ UNCHANGED <<routerVars, vc, mb, gpio, j1939>>

NextParse == ParseStep

SpecParse == InitParse /\ [][NextParse]_vars

(***************************************************************************)
(* SpecDecode: decode_spn over every row of SPN_DEFINITIONS and a set of   *)
(* frame data.  probe holds the row, the data and, once decoded, the       *)
(* result.                                                                 *)
(***************************************************************************)
Fill(n, b) == [i \in 1..n |-> b]

\* An 8-byte frame of zeros with the bytes w written from index k on.
Place(k, w) == [i \in 1..8 |-> IF i > k /\ i - k <= Len(w) THEN w[i - k] ELSE 0]

FieldPatterns ==
    {<<130>>, <<244, 1>>, <<253, 255>>, <<254, 255>>, <<0, 128>>,
     <<253, 255, 255, 255>>, <<254, 255, 255, 255>>}

DecodeData ==
    {Fill(8, b) : b \in {0, 1, 2, 3, 127, 128, 130, 253, 254, 255}}
        \cup {Fill(n, 130) : n \in 0..7}
        \cup {Place(k, w) : k \in 0..7, w \in FieldPatterns}
        \cup {S3Data}

InitDecode ==
    /\ InitRouter(TDirect, NoTargets)
    /\ vc = VcIdle /\ mb = VcIdle /\ gpio = VcIdle /\ j1939 = VcIdle
    /\ \E i \in DOMAIN SPN_DEFINITIONS, data \in DecodeData :
          probe = [pc |-> "input", point |-> SPN_DEFINITIONS[i], data |-> data,
                   result |-> None]

DecodeStep ==
    /\ probe.pc = "input"
    /\ probe' = [probe EXCEPT !.pc = "decoded",
                              !.result = decode_spn(probe.data, probe.point)]
    /\ UNCHANGED <<routerVars, vc, mb, gpio, j1939>>

NextDecode == DecodeStep

SpecDecode == InitDecode /\ [][NextDecode]_vars

(***************************************************************************)
(* Properties of route_batch over the trigger-free tables (Spec)           *)
(***************************************************************************)
IsCall == lastCall.op \in {"route_batch", "process_batch"}

Eval(i) == lastCall.evals[i]
EvalMapping(i) == table[lastCall.evals[i].m]
EvalPoint(i) == lastCall.batch[lastCall.evals[i].p]

Count(S) == Cardinality(S)

\* C1: a numeric value forwarded by route_batch through a mapping that carries
\* TransformConfig::default() (PointMapping::direct, PointMapping::same_id)
\* reaches the target with the same numeric value.
C1_DefaultTransformIsIdentity ==
    lastCall.op = "route_batch" =>
        \A i \in DOMAIN lastCall.evals :
            (/\ EvalMapping(i).transform = TransformDefault
             /\ EvalPoint(i).value.k \in {"Float", "Integer"}
             /\ Eval(i).pass)
                => as_f64(Eval(i).out[1].value) = as_f64(EvalPoint(i).value)

WrittenTo(ch) == {i \in DOMAIN lastCall.writes : lastCall.writes[i].ch = ch}

\* C5: with continue_on_error set, when a batch forwards points to two registered
\* targets and write_batch fails on one of them, the other one still gets its
\* write_batch call.
C5_FailureDoesNotAbortOthers ==
    (IsCall /\ continue_on_error) =>
        \A a, b \in TargetChannels :
            (/\ a # b
             /\ targets[a] # None /\ targets[b] = Some("sink")
             /\ BatchLen(lastCall.target_batches[a]) > 0
             /\ BatchLen(lastCall.target_batches[b]) > 0
             /\ \E i \in WrittenTo(a) : ~lastCall.writes[i].ok)
                => WrittenTo(b) # {}

Matches(m, c, id) == m.enabled /\ m.source_channel = c /\ m.source_point = id

InBatch(b, p) == \E k \in DOMAIN BatchIter(b) : BatchIter(b)[k] = p

\* C6: route_batch(c, batch) evaluates exactly the pairs (point, mapping) whose
\* mapping is enabled and has source_channel = c and source_point = point.id, each
\* once; every pair whose trigger passes puts one point into the batch of the
\* mapping's target channel, named target_point when set and source_point
\* otherwise; nothing else is put into any target batch.
C6_OnlyEnabledMatchingMappingsForward ==
    lastCall.op = "route_batch" =>
        /\ \A i \in DOMAIN lastCall.evals :
              /\ Matches(EvalMapping(i), lastCall.channel, EvalPoint(i).id)
              /\ \A j \in DOMAIN lastCall.evals :
                    (Eval(i).p = Eval(j).p /\ Eval(i).m = Eval(j).m) => i = j
              /\ Eval(i).pass =>
                    /\ Eval(i).out[1].id =
                          (IF EvalMapping(i).target_point = None
                           THEN EvalMapping(i).source_point
                           ELSE EvalMapping(i).target_point[1])
                    /\ InBatch(lastCall.target_batches[EvalMapping(i).target_channel],
                               Eval(i).out[1])
        /\ \A k \in DOMAIN lastCall.batch, j \in DOMAIN table :
              Matches(table[j], lastCall.channel, lastCall.batch[k].id)
                  => \E i \in DOMAIN lastCall.evals : Eval(i).p = k /\ Eval(i).m = j
        /\ \A ch \in TargetChannels :
              BatchLen(lastCall.target_batches[ch]) =
                  Count({i \in DOMAIN lastCall.evals :
                            Eval(i).pass /\ EvalMapping(i).target_channel = ch})

\* A call that met a disabled mapping of its source point (and skipped it), a
\* mapping whose trigger held the point back, and one that forwarded it.
C6_Witness ==
    /\ lastCall.op = "route_batch"
    /\ \E j \in DOMAIN table, k \in DOMAIN lastCall.batch :
          /\ ~table[j].enabled
          /\ table[j].source_channel = lastCall.channel
          /\ table[j].source_point = lastCall.batch[k].id
    /\ \E i \in DOMAIN lastCall.evals : Eval(i).pass
    /\ Len(lastCall.batch) > 1

(***************************************************************************)
(* Properties of the trigger conditions (SpecTrigger)                      *)
(***************************************************************************)
TypeOf(m) == TriggerOf(m).type

IsNumeric(val) == val.k \in {"Float", "Integer", "Bool"}

\* The f64 a numeric value stands for, in tenths.
Num(val) == IF val.k = "Float" THEN val.v ELSE 10 * val.v

\* C3: under Deadband{d} with a numeric value v0 stored for the source key, an
\* incoming numeric value at distance exactly d is held back and leaves v0 stored;
\* one at a distance above d is forwarded and stored.
C3_DeadbandBoundary ==
    [][\A i \in DOMAIN lastCall'.evals :
          LET m == table[lastCall'.evals[i].m]
              v == lastCall'.batch[lastCall'.evals[i].p].value
              v0 == last_values[KeyOf(m)]
          IN  (/\ lastCall'.op \in {"route_batch", "process_batch"}
               /\ Len(lastCall'.evals) = 1
               /\ TypeOf(m) = "Deadband"
               /\ v0 # None /\ IsNumeric(v0[1]) /\ IsNumeric(v))
                  => /\ Abs(Num(v) - Num(v0[1])) = TriggerOf(m).deadband
                          => /\ ~lastCall'.evals[i].pass
                             /\ last_values'[KeyOf(m)] = v0
                     /\ Abs(Num(v) - Num(v0[1])) > TriggerOf(m).deadband
                          => /\ lastCall'.evals[i].pass
                             /\ last_values'[KeyOf(m)] = Some(v)]_vars

IsSingleOnChange(tbl) ==
    /\ Count({j \in DOMAIN tbl : tbl[j].enabled}) = 1
    /\ \A j \in DOMAIN tbl : tbl[j].enabled => TypeOf(tbl[j]) = "OnChange"

\* What OnChange is to do with the values vals, met in this order, when stored is
\* what the store holds for the key: the verdicts and the store afterwards.
RECURSIVE OnChangeExpected(_, _)
OnChangeExpected(stored, vals) ==
    IF vals = <<>> THEN [pass |-> <<>>, stored |-> stored]
    ELSE LET differs == (stored = None) \/ (stored[1] # vals[1])
             rest == OnChangeExpected(IF differs THEN Some(vals[1]) ELSE stored,
                                      Tail(vals))
         IN  [pass |-> <<differs>> \o rest.pass, stored |-> rest.stored]

\* C4: with a single enabled mapping, of trigger OnChange, a point is forwarded
\* iff its value differs from the one stored for the mapping's source key (the
\* first value always is), the forwarded value becomes the stored one, and so a
\* value routed twice in a row, in one batch or in two calls, is forwarded once.
C4_OnChangeForwardsOnce ==
    [][(IsSingleOnChange(table) /\ lastCall'.op \in {"route_batch", "process_batch"})
          => LET j == CHOOSE k \in DOMAIN table : table[k].enabled
                 key == KeyOf(table[j])
                 vals == [i \in DOMAIN lastCall'.evals |->
                             lastCall'.batch[lastCall'.evals[i].p].value]
                 exp == OnChangeExpected(last_values[key], vals)
             IN  /\ [i \in DOMAIN lastCall'.evals |-> lastCall'.evals[i].pass] = exp.pass
                 /\ last_values'[key] = exp.stored
                 /\ \A i \in DOMAIN vals :
                       (i > 1 /\ vals[i] = vals[i - 1]) => ~lastCall'.evals[i].pass
                 /\ (/\ vals # <<>>
                     /\ lastCall.op \in {"route_batch", "process_batch"}
                     /\ lastCall.evals # <<>>
                     /\ vals[1] = lastCall.batch[lastCall.evals[Len(lastCall.evals)].p].value)
                        => ~lastCall'.evals[1].pass]_vars

\* The same value twice in one batch: forwarded the first time only.
C4_Witness ==
    /\ IsSingleOnChange(table)
    /\ lastCall.op = "route_batch"
    /\ Len(lastCall.evals) = 2
    /\ lastCall.batch[1].value = lastCall.batch[2].value
    /\ lastCall.evals[1].pass /\ ~lastCall.evals[2].pass
    /\ BatchLen(lastCall.target_batches[2]) = 1

AllThreshold(tbl) == \A j \in DOMAIN tbl : tbl[j].enabled => TypeOf(tbl[j]) = "Threshold"

\* C7: under Threshold{min, max} a numeric value (Float, Integer, Bool as 0/1) is
\* forwarded iff it lies in the closed interval, a missing bound not limiting it; a
\* non-numeric value is always forwarded; and a table of Threshold mappings leaves
\* the router's trigger state as it was created.
C7_ThresholdClosedInterval ==
    IsCall =>
        /\ \A i \in DOMAIN lastCall.evals :
              LET trg == TriggerOf(EvalMapping(i))
                  v == EvalPoint(i).value
              IN  trg.type = "Threshold" =>
                     (Eval(i).pass <=>
                         (IsNumeric(v) =>
                             /\ (trg.min # None => Num(v) >= trg.min[1])
                             /\ (trg.max # None => Num(v) <= trg.max[1])))
        /\ AllThreshold(table) =>
              /\ \A key \in Keys : last_values[key] = None /\ last_forward[key] = None

\* A value equal to one mapping's max (forwarded) and above the other's (held back).
C7_Witness ==
    /\ IsCall
    /\ \E i, j \in DOMAIN lastCall.evals :
          /\ TypeOf(EvalMapping(i)) = "Threshold" /\ TypeOf(EvalMapping(j)) = "Threshold"
          /\ Eval(i).p = Eval(j).p
          /\ TriggerOf(EvalMapping(i)).max = Some(Num(EvalPoint(i).value))
          /\ Eval(i).pass /\ ~Eval(j).pass

(***************************************************************************)
(* Properties of the Deadband scenario (SpecScenario)                      *)
(***************************************************************************)
S5Values == <<100, 103, 106, 106, 112>>
S5Forwarded == <<1, 3, 5>>

IsPrefix(s, t) == Len(s) <= Len(t) /\ s = SubSeq(t, 1, Len(s))

\* C2: routing 10.0, 10.3, 10.6, 10.6, 11.2 one per call through the single
\* Deadband{0.5} mapping makes the writer of channel 2 receive one write for the
\* 1st, the 3rd and the 5th input, in this order, each holding the one point "t",
\* and no write for the 2nd and the 4th.
C2_DeadbandScenario ==
    IsPrefix(trace, S5Values) =>
        LET due == SelectSeq(S5Forwarded, LAMBDA i : i <= Len(trace))
        IN  /\ Len(received[2]) = Len(due)
            /\ \A n \in DOMAIN due :
                  LET pts == BatchIter(received[2][n])
                  IN  /\ Len(pts) = 1
                      /\ pts[1].id = "t"
                      /\ pts[1].timestamp = due[n]
            /\ received[3] = <<>>

\* All five values routed, three writes received.
C2_Witness ==
    /\ trace = S5Values
    /\ Len(received[2]) = 3
    /\ table = TDeadband
    /\ [n \in 1..3 |-> BatchIter(received[2][n])[1].value] =
          <<VFloat(100), VFloat(106), VFloat(112)>>

(***************************************************************************)
(* Properties of the Interval trigger (SpecInterval)                       *)
(***************************************************************************)
AllInterval(tbl) == \A j \in DOMAIN tbl : tbl[j].enabled => TypeOf(tbl[j]) = "Interval"

\* What Interval is to do at time t with the evaluations es = <<[key, min]>>, met
\* in this order, when stamps holds the last-forward stamp of each key.
RECURSIVE IntervalExpected(_, _, _)
IntervalExpected(stamps, es, t) ==
    IF es = <<>> THEN [pass |-> <<>>, stamps |-> stamps]
    ELSE LET s == stamps[es[1].key]
             due == (s = None) \/ (t - s[1] >= es[1].min)
             rest == IntervalExpected(
                        IF due THEN [stamps EXCEPT ![es[1].key] = Some(t)] ELSE stamps,
                        Tail(es), t)
         IN  [pass |-> <<due>> \o rest.pass, stamps |-> rest.stamps]

\* C8: under Interval{min_interval_ms} the first point of a source key is
\* forwarded, a later one iff at least min_interval_ms have passed since the last
\* forwarded point of that key, and the stamp of the key moves only when a point
\* is forwarded: a point held back leaves it where it was.
C8_IntervalSinceLastForward ==
    [][(AllInterval(table) /\ lastCall'.op \in {"route_batch", "process_batch"})
          => LET es == [i \in DOMAIN lastCall'.evals |->
                           [key |-> KeyOf(table[lastCall'.evals[i].m]),
                            min |-> TriggerOf(table[lastCall'.evals[i].m]).min_interval_ms]]
                 exp == IntervalExpected(last_forward, es, now)
             IN  /\ [i \in DOMAIN lastCall'.evals |-> lastCall'.evals[i].pass] = exp.pass
                 /\ last_forward' = exp.stamps
                 /\ \A i \in DOMAIN es :
                       (/\ \A k \in 1..(i - 1) : es[k].key # es[i].key
                        /\ last_forward[es[i].key] = None)
                           => lastCall'.evals[i].pass
                 /\ (\A i \in DOMAIN es : ~lastCall'.evals[i].pass)
                        => last_forward' = last_forward]_vars

\* A point held back after an earlier one of its key was forwarded, the stamp
\* still that of the earlier one.
C8_Witness ==
    /\ AllInterval(table)
    /\ lastCall.op = "route_batch"
    /\ Len(lastCall.evals) = 1
    /\ ~lastCall.evals[1].pass
    /\ now > 0
    /\ last_forward[KeyOf(table[lastCall.evals[1].m])] = Some(now - 1)

(***************************************************************************)
(* Properties of the virtual channel (SpecVC)                              *)
(***************************************************************************)
\* C9: a receiver that subscribe() returned gets a DataUpdate event for every
\* batch written after the subscription, in the order of the writes: the events
\* put into its channel are the batches produced since it subscribed.
C9_SubscriberReceivesEveryBatch ==
    \A i \in DOMAIN vc.subs :
        vc.subs[i].events = SubSeq(vc.produced, vc.subs[i].since + 1, Len(vc.produced))

\* C10: a write (write, write_point, write_control, write_adjustment) whose store
\* write succeeded goes on to return Ok whatever was written before and whoever
\* reads the events: it is never left waiting for room in the event channel.
C10_WriteAcceptedUnconditionally ==
    vc.pc = "sending" => HasCapacity

\* C11: the virtual channel reports Connected in every reachable state, after
\* construction, connect, disconnect and writes alike, and diagnostics() reports
\* the same state.
C11_VirtualAlwaysConnected ==
    /\ VcConnectionState = "Connected"
    /\ VcDiagnostics.connection_state = VcConnectionState

\* Disconnected after writes were made.
C11_Witness ==
    /\ vc.op = "disconnect"
    /\ vc.diagnostics.write_count > 0
    /\ VcDiagnostics.write_count = vc.diagnostics.write_count

(***************************************************************************)
(* Properties of parse_can_id (SpecParse)                                  *)
(***************************************************************************)
\* C17: parse_can_id takes the priority from bits 26-28 and the source
\* address from bits 0-7; the PGN is dp<<16 | pf<<8 | ps when pf >= 240
\* and dp<<16 | pf<<8 (PS left out) when pf < 240.  0x0CF00400 parses to
\* priority 3, PGN 61444, source address 0; 0x18FEEE00 to priority 6,
\* PGN 65262, source address 0.
C17_ParseCanId ==
    probe.pc = "parsed" =>
        LET f == probe.fields
            r == probe.result
        IN  /\ r.priority = f.priority
            /\ r.sa = f.sa
            /\ f.pf >= 240 => r.pgn = f.dp * 65536 + f.pf * 256 + f.ps
            /\ f.pf < 240 => r.pgn = f.dp * 65536 + f.pf * 256
            /\ probe.can_id = 217056256 =>
                   r.priority = 3 /\ r.pgn = 61444 /\ r.sa = 0
            /\ probe.can_id = 419360256 =>
                   r.priority = 6 /\ r.pgn = 65262 /\ r.sa = 0

C17_Witness ==
    /\ probe.pc = "parsed"
    /\ probe.fields.pf = 239
    /\ probe.fields.ps = 238
    /\ probe.result.pgn = 61184

(***************************************************************************)
(* Properties of decode_spn (SpecDecode)                                   *)
(***************************************************************************)
FieldBytes(point) ==
    CASE point.data_type \in {"Uint8", "Int8"} -> 1
      [] point.data_type \in {"Uint16", "Int16"} -> 2
      [] OTHER -> 4

LongEnough(data, point) == Len(data) >= point.start_byte + FieldBytes(point)

\* The field of the frame as an unsigned number, in two 16-bit halves:
\* bytes little-endian, then start_bit and bit_length within a byte.
FieldHalves(data, point) ==
    LET at(k) == IF k < FieldBytes(point) THEN data[point.start_byte + 1 + k] ELSE 0
    IN  IF FieldBytes(point) = 1
        THEN [hi |-> 0,
              lo |-> (at(0) \div (2 ^ point.start_bit)) % (2 ^ point.bit_length)]
        ELSE [hi |-> at(2) + 256 * at(3), lo |-> at(0) + 256 * at(1)]

IsSigned(point) == point.data_type \in {"Int8", "Int16", "Int32"}

\* The sign bit of a signed field is set: as a u64 the raw value is then
\* above every threshold.
IsNegative(data, point) ==
    /\ IsSigned(point)
    /\ LET f == FieldHalves(data, point)
       IN  IF FieldBytes(point) = 4 THEN f.hi >= 32768
           ELSE f.lo >= 2 ^ (8 * FieldBytes(point) - 1)

\* raw >= (2^bit_length - 1) - 1.
Unavailable(data, point) ==
    LET f == FieldHalves(data, point)
    IN  \/ IsNegative(data, point)
        \/ IF point.bit_length = 32
           THEN f.hi = 65535 /\ f.lo >= 65534
           ELSE f.lo >= 2 ^ point.bit_length - 2

\* value = raw * scale + offset, the value standing for (hi*65536+lo)/den.
IsScaled(value, data, point) ==
    LET f == FieldHalves(data, point)
    IN  /\ value.den = point.scale_den
        /\ IF FieldBytes(point) = 4
           THEN /\ point.offset = 0
                /\ value.lo = (f.lo * point.scale_num) % 65536
                /\ value.hi = f.hi * point.scale_num
                                 + ((f.lo * point.scale_num) \div 65536)
           ELSE value.hi * 65536 + value.lo
                    = f.lo * point.scale_num + point.offset * point.scale_den

C20_SpnUnique ==
    /\ \A i, k \in DOMAIN SPN_DEFINITIONS :
          SPN_DEFINITIONS[i].spn = SPN_DEFINITIONS[k].spn => i = k
    /\ get_spn_def(probe.point.spn) = Some(probe.point)

(***************************************************************************)
(* Properties of the protocol channels (SpecChannels)                      *)
(***************************************************************************)
ModbusGuarded == {"read", "write_control", "write_adjustment", "start_polling"}

GpioGuarded == {"read", "write_control"}

\* C12: on ModbusTcpClient and GpioChannel, a read or write_control (and a
\* write_adjustment or start_polling on Modbus) called while the channel is
\* not Connected fails with NotConnected and leaves read_count, write_count
\* and the stored output states as they were.
C12_NotConnectedRejected ==
    [][/\ (mb.pc = "idle" /\ mb.state # "Connected" /\ mb' # mb
            /\ mb'.op \in ModbusGuarded) =>
              /\ mb'.result = "NotConnected"
              /\ mb'.read_count = mb.read_count
              /\ mb'.write_count = mb.write_count
       /\ (gpio.pc = "idle" /\ gpio.state # "Connected" /\ gpio' # gpio
            /\ gpio'.op \in GpioGuarded) =>
              /\ gpio'.result = "NotConnected"
              /\ gpio'.read_count = gpio.read_count
              /\ gpio'.write_count = gpio.write_count
              /\ gpio'.output_states = gpio.output_states]_vars

C12_Witness ==
    /\ gpio.pc = "idle"
    /\ gpio.state = "Disconnected"
    /\ gpio.op = "write_control"
    /\ gpio.result = "NotConnected"
    /\ gpio.write_count > 0
    /\ gpio.output_states["do"] # None

Edges ==
    {<<"Disconnected", "Connecting">>, <<"Connecting", "Connected">>,
     <<"Connected", "Reconnecting">>, <<"Connected", "Error">>,
     <<"Reconnecting", "Connecting">>, <<"Error", "Connecting">>,
     <<"Connected", "Disconnected">>}

\* C13: for every channel and every sequence of connect and disconnect
\* calls, the connection state changes only along the edges
\* Disconnected->Connecting, Connecting->Connected, Connected->Reconnecting,
\* Connected->Error, Reconnecting->Connecting, Error->Connecting and
\* Connected->Disconnected.
C13_OnlyListedEdges ==
    [][/\ (mb.pc # "unused" /\ mb'.state # mb.state) =>
              <<mb.state, mb'.state>> \in Edges
       /\ (gpio.pc # "unused" /\ gpio'.state # gpio.state) =>
              <<gpio.state, gpio'.state>> \in Edges
       /\ (j1939.pc # "unused"
            /\ j1939'.connection_state # j1939.connection_state) =>
              <<j1939.connection_state, j1939'.connection_state>> \in Edges]_vars

\* C14: when J1939Client::connect fails to open the CAN interface it
\* returns a Connection error, starts no receiver task, and leaves the
\* connection state in Error, so that can_retry() holds afterwards.
C14_FailedConnectLeavesError ==
    [][(j1939.pc = "connecting" /\ j1939'.pc = "idle"
        /\ j1939'.result = "Connection") =>
          /\ j1939'.tasks = j1939.tasks
          /\ j1939'.receive_handle = j1939.receive_handle
          /\ j1939'.connection_state = "Error"
          /\ can_retry(j1939'.connection_state)]_vars

\* C16: the receiver accepts a frame only when the source address in its
\* CAN id equals the configured source_address: a frame from any other
\* source address adds or changes no cache entry, emits no event and does
\* not increment read_count, whatever its PGN and data.
C16_OtherSourceIgnored ==
    [][(j1939.pc # "unused" /\ j1939'.op = "task" /\ j1939'.frame # NoFrame
        /\ j1939'.frame.extended
        /\ j1939'.frame.id % 256 # j1939.source_address) =>
          /\ j1939'.cached_data = j1939.cached_data
          /\ j1939'.read_count = j1939.read_count
          /\ j1939'.emitted = <<>>
          /\ ~j1939'.event]_vars

C16_Witness ==
    /\ j1939.pc = "idle"
    /\ j1939.op = "task"
    /\ j1939.frame = [extended |-> TRUE, id |-> 217056257, data |-> EngineSpeedData]
    /\ j1939.tasks[1].handler
    /\ j1939.cached_data[190] # None
    /\ j1939.read_count = 1

S3Frame == [extended |-> TRUE, id |-> 217056256, data |-> S3Data]

\* The batch holds a Telemetry point of this id and value num / den.
Emits(batch, id, num, den) ==
    \E i \in DOMAIN batch :
        /\ batch[i].id = id
        /\ batch[i].data_type = "Telemetry"
        /\ batch[i].value = [k |-> "Float", v |-> [hi |-> 0, lo |-> num, den |-> den]]

\* C19 as stated: decoding the frame with CAN id 0x0CF00400 and data
\* [00 00 00 00 F4 01 00 00 00] (configured source_address 0) extracts
\* raw = 0x01F4 = 500 for SPN 190 and emits a point with id 190 and
\* value 62.5.
C19_S3EmitsSixtyTwoPointFive ==
    (j1939.pc # "unused" /\ j1939.source_address = 0 /\ j1939.frame = S3Frame) =>
        Emits(j1939.emitted, 190, 500, 8)

\* C19: decoding the frame with CAN id 0x0CF00400 and data
\* [00 00 00 00 F4 01 00 00 00] (configured source_address 0) takes the
\* raw value of SPN 190 from bytes 3 and 4, little-endian, raw = 0xF400 =
\* 62464, and emits a point with id 190 and value 7808.0; the frame with
\* data [00 00 00 F4 01 00 00 00] gives raw = 0x01F4 = 500 and value 62.5.
C19_S3EmitsByteThreeAndFour ==
    /\ (j1939.pc # "unused" /\ j1939.source_address = 0 /\ j1939.frame = S3Frame) =>
           Emits(j1939.emitted, 190, 62464, 8)
    /\ (j1939.pc # "unused" /\ j1939.source_address = 0
        /\ j1939.frame = [S3Frame EXCEPT !.data = EngineSpeedData]) =>
           Emits(j1939.emitted, 190, 500, 8)

C19_Witness ==
    /\ j1939.pc # "unused"
    /\ j1939.frame = S3Frame
    /\ Emits(j1939.emitted, 190, 62464, 8)
    /\ j1939.cached_data[190] # None

\* Every point of the cache is still there, with its value and quality.
Keeps(before, after) ==
    \A spn \in SpnNumbers : before[spn] # None => after[spn] = before[spn]

\* C15: disconnect leaves the latest-value cache untouched: every point
\* cached before disconnect is still returned with the same value and
\* quality by read() after disconnect, and a later connect keeps those
\* points.  As steps: the cache keeps its points in disconnect, in every
\* step taken while the client is Disconnected, and in connect; read()
\* without a filter returns the points of the cache.
C15_DisconnectKeepsCache ==
    [][(j1939.pc # "unused") =>
          /\ (j1939'.connection_state = "Disconnected"
              \/ j1939'.op \in {"connect", "disconnect"}) =>
                 Keeps(j1939.cached_data, j1939'.cached_data)
          /\ (j1939'.op = "read" /\ j1939' # j1939) =>
                 j1939'.batch \subseteq Cached(j1939.cached_data)]_vars

(***************************************************************************)
(* Properties of parse_address (SpecAddress)                               *)
(***************************************************************************)
IsModbusKeyword(protocol) ==
    /\ Len(protocol) = 6
    /\ protocol[1] \in {"m", "M"} /\ protocol[2] \in {"o", "O"}
    /\ protocol[3] \in {"d", "D"} /\ protocol[4] \in {"b", "B"}
    /\ protocol[5] \in {"u", "U"} /\ protocol[6] \in {"s", "S"}

InRange(field, max) == field.value >= 0 /\ field.value <= max

ModbusDefault(slave, register, fc) ==
    [kind |-> "Modbus", slave_id |-> slave, register |-> register,
     function_code |-> fc, format |-> "UInt16", byte_order |-> "Abcd",
     bit_position |-> None]

\* C21: with the keyword 'modbus' in any letter case, 'slave:register'
\* yields a Modbus address with that slave and register, function code 3,
\* format U16, byte order ABCD and no bit position; 'slave:register:fc'
\* yields the same with the given function code; any other number of
\* fields, or a field that is no decimal integer in range (slave u8,
\* register u16, fc u8), yields a Config error; an unknown keyword yields
\* a Config error.
C21_ModbusShorthand ==
    probe.pc = "parsed" =>
        LET f == probe.fields
            r == probe.result
        IN  IF ~IsModbusKeyword(probe.protocol)
            THEN r = AddrErr("Config")
            ELSE IF Len(f) = 2 /\ InRange(f[1], 255) /\ InRange(f[2], 65535)
            THEN r = AddrOk(ModbusDefault(f[1].value, f[2].value, 3))
            ELSE IF Len(f) = 3 /\ InRange(f[1], 255) /\ InRange(f[2], 65535)
                    /\ InRange(f[3], 255)
            THEN r = AddrOk(ModbusDefault(f[1].value, f[2].value, f[3].value))
            ELSE r = AddrErr("Config")

C21_Witness ==
    /\ probe.pc = "parsed"
    /\ probe.protocol = <<"M", "o", "d", "B", "u", "s">>
    /\ probe.address = <<"2", "5", "5", ":", "6", "5", "5", "3", "5", ":", "7">>
    /\ probe.result = AddrOk(ModbusDefault(255, 65535, 7))

\* The function codes the Modbus address type admits.
FunctionCodes == {1, 2, 3, 4, 5, 6, 15, 16}

\* C29: every Modbus address parse_address returns has a function code in
\* {1, 2, 3, 4, 5, 6, 15, 16}; a shorthand address with any other function
\* code is rejected with a Config error.
C29_FunctionCodeListed ==
    (probe.pc = "parsed" /\ probe.result.ok /\ probe.result.addr.kind = "Modbus")
        => probe.result.addr.function_code \in FunctionCodes

\* The channel configuration names a protocol the factory builds and its
\* parameters deserialize.
Buildable(config) ==
    /\ to_lowercase(config.protocol) \in {Chars("modbus"), Chars("virtual")}
    /\ config.params_ok

Parses(config, i) == parse_address(config.protocol, config.points[i].address).ok

\* C22: a point whose shorthand address fails to parse does not abort
\* channel creation: create_channel returns a channel holding all enabled
\* points that did parse, and reports the failed point's id as a warning.
C22_FailedPointIsWarning ==
    (probe.pc = "created" /\ Buildable(probe.config)) =>
        LET config == probe.config
            r == probe.result
        IN  /\ r.ok
            /\ r.points = build_point_configs_skipping(config.protocol, config.points).points
            /\ \A i \in 1..Len(config.points) :
                  (config.points[i].enabled /\ ~Parses(config, i)) =>
                      \E w \in 1..Len(r.failed_points) :
                          r.failed_points[w][1] = config.points[i].id

\* C30: the point list build_point_configs attaches to a channel has no
\* two points with the same id, and no point whose definition has
\* enabled = false.
C30_PointsUniqueAndEnabled ==
    (probe.pc = "created" /\ probe.result.ok) =>
        LET config == probe.config
            points == probe.result.points
        IN  /\ \A i, j \in 1..Len(points) : points[i].id = points[j].id => i = j
            /\ \A i \in 1..Len(points) :
                  \E k \in 1..Len(config.points) :
                      /\ config.points[k].id = points[i].id
                      /\ config.points[k].enabled

\* The severity class of a quality: Good, Uncertain for Uncertain,
\* Substituted and LastKnown, Bad for every other quality.
SeverityClass(q) ==
    IF q = "Good" THEN "Good"
    ELSE IF q \in {"Uncertain", "Substituted", "LastKnown"} THEN "Uncertain"
    ELSE "Bad"

\* The two highest bits of a status, as a number 0..3.
TopTwoBits(status) == status[1] \div 16384

\* C25: from_opc_status(q.to_opc_status()) has the severity class of q for
\* each of the 14 qualities, and from_opc_status maps any 32-bit status by
\* its two highest bits: 00 Good, 01 Uncertain, 10 and 11 Bad.
C25_SeverityRoundTrip ==
    probe.pc = "converted" =>
        /\ probe.quality # "none" => probe.result = SeverityClass(probe.quality)
        /\ probe.result = CASE TopTwoBits(probe.status) = 0 -> "Good"
                            [] TopTwoBits(probe.status) = 1 -> "Uncertain"
                            [] OTHER -> "Bad"

C25_Witness ==
    /\ probe.pc = "converted"
    /\ probe.quality = "LastKnown"
    /\ probe.status = <<16527, 0>>
    /\ probe.result = "Uncertain"

\* The points of one data type among the points added, in the order added.
RECURSIVE Group(_, _)
Group(points, data_type) ==
    IF points = <<>> THEN <<>>
    ELSE (IF Head(points).data_type = data_type THEN <<Head(points)>> ELSE <<>>)
         \o Group(Tail(points), data_type)

\* C26: after any sequence of add and merge calls, iter() yields all
\* Telemetry points, then all Signal, then all Control, then all Adjustment
\* points, each group in insertion order with a merged batch's points
\* after the points already present, and len() is the number of points
\* added directly or through merges.
C26_IterGroupedInInsertionOrder ==
    probe.pc = "batch" =>
        /\ BatchIter(probe.batch) =
              Group(probe.added, "Telemetry") \o Group(probe.added, "Signal")
              \o Group(probe.added, "Control") \o Group(probe.added, "Adjustment")
        /\ BatchLen(probe.batch) = Len(probe.added)

C26_Witness ==
    /\ probe.pc = "batch"
    /\ probe.op = "merge"
    /\ probe.added = <<signal(1, TRUE, 0), telemetry(1, VFloat(10), 0),
                       signal(2, FALSE, 0), telemetry(2, VFloat(20), 0)>>
    /\ BatchIter(probe.batch) = <<telemetry(1, VFloat(10), 0), telemetry(2, VFloat(20), 0),
                                  signal(1, TRUE, 0), signal(2, FALSE, 0)>>
    /\ BatchLen(probe.batch) = 4

\* The two's-complement reading of a signed field whose sign bit is set.
SignedRaw(data, point) ==
    LET f == FieldHalves(data, point)
    IN  IF FieldBytes(point) = 4 THEN (f.hi - 65536) * 65536 + f.lo
        ELSE f.lo - 2 ^ (8 * FieldBytes(point))

\* C28: for an SPN of a signed data type (SPN 114, Int16), a frame whose
\* field holds the two's-complement encoding of a negative raw value r is
\* decoded by sign extension and emits the value r * scale + offset.
C28_NegativeRawEmitted ==
    (probe.pc = "decoded" /\ LongEnough(probe.data, probe.point)
        /\ IsNegative(probe.data, probe.point)) =>
        /\ probe.result # None
        /\ probe.result[1].den = probe.point.scale_den
        /\ probe.result[1].hi * 65536 + probe.result[1].lo
              = SignedRaw(probe.data, probe.point) * probe.point.scale_num
                    + probe.point.offset * probe.point.scale_den

\* The id names a configured Output pin.
IsOutputPin(id) ==
    \E i \in DOMAIN GpioPins : GpioPins[i].point_id = id /\ GpioPins[i].direction = "Output"

\* The ids of the commands that name no configured Output pin, in order.
RECURSIVE FailedIds(_)
FailedIds(commands) ==
    IF commands = <<>> THEN <<>>
    ELSE (IF IsOutputPin(commands[1].id) THEN <<>> ELSE <<commands[1].id>>)
         \o FailedIds(Tail(commands))

\* The level the last command on an output pin leaves in it.
LastLevel(commands, id) ==
    LET at == {k \in 1..Len(commands) : commands[k].id = id}
        last == CHOOSE k \in at : \A j \in at : j <= k
        pin == GpioPins[CHOOSE i \in DOMAIN GpioPins : GpioPins[i].point_id = id]
    IN  IF commands[last].value = pin.active_low THEN 0 ELSE 1

\* C23: on a connected GpioChannel, write_control returns Ok with
\* success_count plus the number of failures equal to the number of
\* commands; a command succeeds iff its id names a configured Output pin,
\* unknown ids and Input pins being reported as failures with the pin
\* states unchanged; a failing command does not keep the other commands
\* from being applied; write_count grows by exactly success_count.
C23_WriteControlPerCommand ==
    [][(gpio.pc = "idle" /\ is_connected(gpio.state) /\ gpio'.op = "write_control") =>
          LET commands == gpio'.commands
          IN  /\ gpio'.result = "Ok"
              /\ gpio'.success_count + Len(gpio'.failures) = Len(commands)
              /\ gpio'.failures = FailedIds(commands)
              /\ \A id \in GpioPointIds :
                    gpio'.output_states[id] =
                        IF IsOutputPin(id) /\ \E k \in 1..Len(commands) : commands[k].id = id
                        THEN Some(LastLevel(commands, id))
                        ELSE gpio.output_states[id]
              /\ gpio'.write_count = gpio.write_count + gpio'.success_count]_vars

C23_Witness ==
    /\ gpio.pc = "idle"
    /\ gpio.state = "Connected"
    /\ gpio.op = "write_control"
    /\ gpio.result = "Ok"
    /\ gpio.commands = <<latching("xx", TRUE), latching("don", FALSE)>>
    /\ gpio.success_count = 1
    /\ gpio.failures = <<"xx">>
    /\ gpio.output_states["don"] = Some(1)
    /\ gpio.output_states["do"] = None
    /\ gpio.write_count = 1

\* C24: for ModbusTcpClient, GpioChannel, VirtualChannel and J1939Client,
\* under every sequence of connect, disconnect, read and write calls,
\* successful or failed, the read_count, write_count and error_count that
\* diagnostics() reports never decrease; disconnect and reconnect do not
\* reset them.
C24_CountersNeverDecrease ==
    [][/\ Diagnostics'.read_count >= Diagnostics.read_count
       /\ Diagnostics'.write_count >= Diagnostics.write_count
       /\ Diagnostics'.error_count >= Diagnostics.error_count]_vars

C24_Witness ==
    /\ mb # VcIdle
    /\ mb.op = "disconnect"
    /\ mb.state = "Disconnected"
    /\ ModbusDiagnostics.read_count > 0
    /\ ModbusDiagnostics.write_count > 0

\* The commands of a list that carry a pulse duration.
Pulses(commands) == {k \in 1..Len(commands) : commands[k].pulse_duration_ms # None}

\* C27: a control command with pulse_duration_ms set, written to a
\* connected Modbus channel, produces an ON write and, after the pulse
\* duration, an OFF write to the same point: when write_control returns,
\* the channel has made one write for every command and one more for every
\* pulse command.
C27_PulseWritesOnThenOff ==
    [][(mb.pc = "idle" /\ mb.is_connected /\ mb' # mb /\ mb'.op = "write_control") =>
          /\ mb'.result = "Ok"
          /\ mb'.write_count = mb.write_count + Len(mb'.commands)
                                  + Cardinality(Pulses(mb'.commands))]_vars

\* The SPN numbers a frame with this data emits for the PGN of a point.
EmittedSpns(data, point) ==
    LET batch == DecodeAll(pgn_points(point.pgn), data)
    IN  {batch[i].id : i \in DOMAIN batch}

\* C40: decode_spn never reads outside the frame: for every definition of
\* SPN_DEFINITIONS and every data length from 0 to 8 it reads only indexes
\* below the length, no shift or subtraction overflows, and it returns a
\* value or None; an SPN whose field does not fit in the frame is skipped
\* while the SPNs of the same PGN that decode are still emitted.
C40_DecodeStaysInFrame ==
    probe.pc = "decoded" =>
        LET data == probe.data
            point == probe.point
            others == pgn_points(point.pgn)
        IN  /\ \A idx \in IndexesRead(data, point) : idx >= 0 /\ idx < Len(data)
            /\ ~ArithmeticOverflows(data, point)
            /\ probe.result = None \/ Len(probe.result) = 1
            /\ ~LongEnough(data, point) => probe.result = None
            /\ EmittedSpns(data, point) =
                  {others[i].spn : i \in {j \in DOMAIN others :
                                             decode_spn(data, others[j]) # None}}

C40_Witness ==
    /\ probe.pc = "decoded"
    /\ probe.point.spn = 190
    /\ probe.data = Fill(4, 130)
    /\ probe.result = None
    /\ EmittedSpns(probe.data, probe.point) = {899, 4154, 512, 513}

\* C34: once disconnect has returned, the receive task is stopped: in a
\* step taken while the client is Disconnected and no call is in progress,
\* nothing is inserted into the cache, no batch is emitted and read_count
\* is not incremented.
C34_NoReceiveAfterDisconnect ==
    [][(j1939.pc = "idle" /\ j1939.connection_state = "Disconnected") =>
          /\ j1939'.cached_data = j1939.cached_data
          /\ j1939'.read_count = j1939.read_count
          /\ j1939'.emitted = <<>>]_vars

AliveTasks == {i \in DOMAIN j1939.tasks : j1939.tasks[i].pc # "none"}

\* C38: for every sequence of connect and disconnect calls at most one
\* receive task of the client is alive at any time.
C38_OneReceiveTask ==
    j1939.pc # "unused" => Cardinality(AliveTasks) <= 1

\* The value of the last command of a list for a point id.
LastValue(commands, id) ==
    LET at == {k \in 1..Len(commands) : commands[k].id = id}
    IN  commands[CHOOSE k \in at : \A j \in at : j <= k].value

\* C39: for every configured output pin, active_low or not, the Control
\* feedback point that read() returns after a successful write_control
\* carries the value of the last command written to that pin.
C39_FeedbackIsLogicalValue ==
    (gpio.pc = "idle" /\ gpio.op = "write_control" /\ gpio.result = "Ok") =>
        \A id \in GpioPointIds :
            (IsOutputPin(id) /\ \E k \in 1..Len(gpio.commands) : gpio.commands[k].id = id) =>
                GpioReadBatch(input_pins \o output_pins, Some({id}),
                              gpio.output_states, DataBatchNew).control
                    = <<control(id, LastValue(gpio.commands, id), 0)>>

\* DataRouter::is_running: the handle is held and its task has not finished.
is_running == task_handle /\ routing_tasks > 0

\* C37: after stop() has returned no routing task started by the router is
\* running and is_running() is false, whatever start and stop calls came
\* before, start called twice without a stop in between included.
C37_StopLeavesNoRoutingTask ==
    lastCall.op = "stop" => (routing_tasks = 0 /\ ~is_running)

\* The points the evaluations of the last call forwarded to a target
\* channel, in the order of the evaluations.
RECURSIVE ForwardedTo(_, _)
ForwardedTo(evals, ch) ==
    IF evals = <<>> THEN <<>>
    ELSE (IF evals[1].pass /\ table[evals[1].m].target_channel = ch
          THEN <<evals[1].out[1]>> ELSE <<>>) \o ForwardedTo(Tail(evals), ch)

\* C31: in one route_batch or process_batch call each registered target
\* channel with at least one forwarded point gets exactly one write_batch
\* call, holding all the points forwarded to it in source iteration order;
\* a target with no forwarded point gets no call; points mapped to a
\* channel with no registered writer are dropped without an error.
C31_OneWritePerTarget ==
    IsCall =>
        /\ \A ch \in TargetChannels :
              LET forwarded == ForwardedTo(lastCall.evals, ch)
              IN  IF targets[ch] # None /\ forwarded # <<>>
                  THEN /\ Count(WrittenTo(ch)) = 1
                       /\ \A i \in WrittenTo(ch) :
                             BatchIter(lastCall.writes[i].batch) = forwarded
                  ELSE WrittenTo(ch) = {}
        /\ (\A i \in DOMAIN lastCall.writes : lastCall.writes[i].ok)
              => lastCall.result = "Ok"

(***************************************************************************)
(* Properties of the trigger state and the writers (SpecDelivery, SpecLoop) *)
(***************************************************************************)
\* C35: when one source point has two enabled OnChange mappings with the
\* same source key to two different registered targets, a value that
\* differs from the previously routed one is forwarded to both targets:
\* the evaluation of one mapping does not suppress the other.
C35_BothOnChangeMappingsForward ==
    IsCall =>
        \A i, j \in DOMAIN lastCall.evals :
            (/\ Eval(i).p = Eval(j).p
             /\ TypeOf(EvalMapping(i)) = "OnChange"
             /\ TypeOf(EvalMapping(j)) = "OnChange"
             /\ KeyOf(EvalMapping(i)) = KeyOf(EvalMapping(j))
             /\ EvalMapping(i).target_channel # EvalMapping(j).target_channel
             /\ targets[EvalMapping(i).target_channel] # None
             /\ targets[EvalMapping(j).target_channel] # None
             /\ Eval(i).pass)
                => Eval(j).pass

\* The last call delivered a point of this source key: a write_batch that
\* returned Ok carried a point forwarded by a mapping of the key.
Delivered(call, key) ==
    \E w \in DOMAIN call.writes, i \in DOMAIN call.evals :
        /\ call.writes[w].ok
        /\ call.evals[i].pass
        /\ KeyOf(table[call.evals[i].m]) = key
        /\ table[call.evals[i].m].target_channel = call.writes[w].ch

\* C36: trigger state advances only on delivery: the stored last value and
\* last-forward stamp of a source key change only in a call that delivered
\* a point of that key to a registered writer whose write_batch succeeded.
C36_StateAdvancesOnDelivery ==
    [][\A key \in Keys :
          (last_values'[key] # last_values[key] \/ last_forward'[key] # last_forward[key])
              => Delivered(lastCall', key)]_vars

\* The (point, mapping, forwarded point) triples of the evaluations that passed.
Passing(evals) ==
    {<<evals[i].p, evals[i].m, evals[i].out>> : i \in {k \in DOMAIN evals : evals[k].pass}}

\* What route_batch(c, batch) evaluates from the current state.
RouteFrom(c, pts) ==
    Evaluate(RoutePairs(table, c, pts, 1), table, pts, now,
             [st |-> RouterState, evals |-> <<>>,
              target_batches |-> EmptyTargetBatches])

\* C32: process_batch evaluates a point against every enabled mapping
\* whose source_point is the point's id, whatever its source_channel, so
\* for the same batch and state it forwards a superset of what
\* route_batch(c, batch) forwards for any channel c; the trigger state it
\* reads and writes is that of the mapping's (source_channel, source_point).
C32_ProcessBatchMatchesOnPointId ==
    [][(lastCall'.op = "process_batch") =>
          LET call == lastCall'
              pts == call.batch
          IN  /\ {<<call.evals[i].p, call.evals[i].m>> : i \in DOMAIN call.evals}
                    = {pair \in (DOMAIN pts) \X (DOMAIN table) :
                          /\ table[pair[2]].enabled
                          /\ table[pair[2]].source_point = pts[pair[1]].id}
              /\ \A c \in SourceChannels :
                    LET routed == RouteFrom(c, pts)
                    IN  /\ Passing(routed.evals) \subseteq Passing(call.evals)
                        /\ \A ch \in TargetChannels :
                              LET forwarded == BatchIter(routed.target_batches[ch])
                              IN  \A k \in DOMAIN forwarded :
                                      InBatch(call.target_batches[ch], forwarded[k])
              /\ \A key \in Keys :
                    last_values'[key] # last_values[key] =>
                        \E i \in DOMAIN call.evals :
                            /\ call.evals[i].pass
                            /\ KeyOf(table[call.evals[i].m]) = key
                            /\ last_values'[key] = Some(pts[call.evals[i].p].value)]_vars

\* A process_batch call that forwarded one point through the mappings of
\* two source channels.
C32_Witness ==
    /\ lastCall.op = "process_batch"
    /\ table = TCross
    /\ \E i, j \in DOMAIN lastCall.evals :
          /\ Eval(i).p = Eval(j).p
          /\ Eval(i).pass /\ Eval(j).pass
          /\ EvalMapping(i).source_channel # EvalMapping(j).source_channel
    /\ last_values[<<1, "t">>] # None
    /\ last_values[<<2, "t">>] # None

(***************************************************************************)
(* Properties of concurrent should_forward calls (SpecEvaluators)          *)
(***************************************************************************)
Forwarding == {e \in Evaluators : probe.calls[e].pc = "done" /\ probe.calls[e].changed}

\* C33: the check of the stored value and its update are atomic: between
\* the check of a call and its insert the stored value stays what the
\* check saw, and when all the concurrent calls under one OnChange
\* mapping evaluate the same new value, exactly one of them forwards it.
C33_CheckAndUpdateAtomic ==
    probe.pc = "evaluating" =>
        /\ \A e \in Evaluators :
              probe.calls[e].pc = "checked" =>
                  (probe.calls[e].changed
                      <=> last_values[EvaluatorKey] # Some(probe.calls[e].value))
        /\ (/\ \A e \in Evaluators : probe.calls[e].pc = "done"
            /\ \A e \in Evaluators : probe.calls[e].value = probe.calls[1].value)
              => Cardinality(Forwarding) = 1

\* Two calls with the same new value: the first forwarded it, the second
\* holds the lock and has found the value unchanged.
C33_Witness ==
    /\ probe.pc = "evaluating"
    /\ probe.calls[1].value = probe.calls[2].value
    /\ probe.calls[1].pc = "done" /\ probe.calls[1].changed
    /\ probe.calls[2].pc = "checked" /\ ~probe.calls[2].changed
    /\ probe.state_lock = 2

====
